---------------------------- MODULE Spec2Model ----------------------------
(***************************************************************************)
(* Model of the polymarket-bot take-profit / stop-loss monitor             *)
(* (profit_monitor.py), its persisted config store (monitor_config.py,     *)
(* db.py) and the daemon start / stop paths (main.py, web_api.py).         *)
(*                                                                         *)
(* Units.  Prices are integers in thousandths (0.001 = 1, 0.01 = 10,       *)
(* 0.50 = 500, 1.0 = 1000).  Share counts are integers in hundredths       *)
(* (0.01 share = 1).  Python's None is the integer None == -1.  The        *)
(* arithmetic is exact; binary floating-point rounding of the Python       *)
(* floats is not modelled.                                                 *)
(***************************************************************************)
EXTENDS Integers, Sequences, FiniteSets, TLC

VARIABLES
    cp_in,      \* the arguments and order books of one check_position call
    cp_out      \* what that call returned

cp_vars == <<cp_in, cp_out>>

VARIABLES
    monitor_configs,  \* rows of the monitor_configs table
    positions,        \* upstream: token -> share count held (0: no position)
    pc,               \* where ProfitMonitor.run stands
    configs,          \* the list run() was given (list_enabled at launch)
    position_tokens,  \* run(): tokens listed by the start-up positions query
    active_configs,   \* run(): the configs still monitored, in dict order
    todo,             \* run(): rest of list(active_configs.items()) this cycle
    cur,              \* run(): the config of the current loop iteration
    check_result,     \* run(): what check_position answered for cur
    sell_price,       \* run(): price of the sell submitted for cur
    actual_size,      \* run(): answer of get_actual_position_size for cur
    sold_tokens,      \* ProfitMonitor.sold_tokens
    running,          \* ProfitMonitor.running
    cycle,            \* number of polling cycles begun
    env_steps,        \* number of upstream changes made by others
    last_sell,        \* history: the execute_sell call of the latest step
    recov,            \* history: the balance recovery of this iteration
    sold_ok,          \* history: ids of configs whose sell succeeded
    gone,             \* history: ids of configs whose re-queried size was <= 0
    cycle_tokens      \* history: tokens held upstream when the cycle began

mon_vars == <<monitor_configs, positions, pc, configs, position_tokens,
              active_configs, todo, cur, check_result, sell_price,
              actual_size, sold_tokens, running, cycle, env_steps,
              last_sell, recov, sold_ok, gone, cycle_tokens>>

\* The variables of the monitor run: all of mon_vars but the table.
run_vars == <<positions, pc, configs, position_tokens,
              active_configs, todo, cur, check_result, sell_price,
              actual_size, sold_tokens, running, cycle, env_steps,
              last_sell, recov, sold_ok, gone, cycle_tokens>>

VARIABLES
    daemon_pid,  \* daemon_state.pid of the row 'profit_monitor' (None: NULL)
    proc,        \* pid -> how far that profit_monitor.py process has got
    caller,      \* per caller: its position in a start / stop / restart
    next_pid     \* the pid the next new process gets

daemon_vars == <<daemon_pid, proc, caller, next_pid>>

VARIABLES
    client       \* per caller: its position in an add() or update() call

store_vars == <<client>>

VARIABLES
    ct_file,     \* .copy_trading/configs.json: config id -> CopyTraderConfig
    ct_web,      \* CopyTradingConfigManager.configs of the web API process
    ct_mem,      \* CopyTradingConfigManager.configs of the copy-trader daemon
    ct_pc,       \* where CopyTrader.run stands
    ct_todo,     \* CopyTrader.run: the configs still to process this cycle
    ct_cur,      \* CopyTrader.process_config: the config being processed
    ct_clock,    \* time.time(), in polling cycles
    ct_restart,  \* the web API is about to restart the daemon
    ct_op,       \* history: target and fields of the manager call that just saved
    ct_pending   \* add() of a web request thread that has passed its check

ct_vars == <<ct_file, ct_web, ct_mem, ct_pc, ct_todo, ct_cur, ct_clock,
             ct_restart, ct_op, ct_pending>>

VARIABLES
    sd_phase,    \* per daemon: where its run() loop stands
    sd_left,     \* per daemon: configs of the in-flight cycle not yet processed
    sd_running,  \* per daemon: self.running
    sd_active,   \* per daemon: configs it monitors (active_configs, configs)
    sd_marker,   \* per daemon: its PID marker is set
    sd_cycles    \* per daemon: polling cycles begun

sd_vars == <<sd_phase, sd_left, sd_running, sd_active, sd_marker, sd_cycles>>

VARIABLES
    scan_cfg,      \* ScannerConfig of the scan and what the collaborators answer
    scan_markets,  \* the markets fetch_expiring_markets returned, by id
    scan_stage,    \* how far scan_with_stats / cmd_scan has got
    scan_cands,    \* scan_with_stats: candidates (market ids, in list order)
    scan_opps,     \* scan_with_stats: opportunities (market ids, in list order)
    scan_opp,      \* the MarketOpportunity of each market id
    scan_failed,   \* history: ids rejected by pre-filter, scoring filters, triage
    scan_ran       \* history: per later stage, the ids it ran on

scan_vars == <<scan_cfg, scan_markets, scan_stage, scan_cands, scan_opps,
               scan_opp, scan_failed, scan_ran>>

VARIABLES
    rl_clock,    \* time.time(), in whole seconds
    rl_times,    \* RateLimiter.request_times
    rl_until,    \* RateLimiter._rate_limit_until
    rl_consec,   \* RateLimiter._consecutive_rate_limits
    rl_lock,     \* RateLimiter._lock: the coroutine holding it, or "none"
    rl_pc,       \* per coroutine: where it stands in acquire()
    rl_wake,     \* per coroutine: when its asyncio.sleep ends
    rl_done,     \* history: the times the latest acquire() calls completed
    rl_backoff   \* history: cooldowns set by the latest two consecutive errors

rl_vars == <<rl_clock, rl_times, rl_until, rl_consec, rl_lock, rl_pc, rl_wake,
             rl_done, rl_backoff>>

VARIABLES
    ai_pc,         \* per AI caller: where it stands in its request
    ai_attempt,    \* per AI caller: attempt of its retry loop
    ai_wake,       \* per AI caller: when its backoff sleep ends
    guard,         \* the api_guard singleton: _credit_error, _credit_error_time
    ai_credit_at,  \* history: when the collaborator last reported exhausted
                   \* credit, None if never or if the guard was reset since
    ai_last_call   \* history: the count of requests sent to the collaborator
                   \* and whether the latest went out against exhausted credit

ai_vars == <<ai_pc, ai_attempt, ai_wake, guard, ai_credit_at, ai_last_call>>

VARIABLES
    cache_clock,   \* time.time(), in ticks
    cache_up,      \* per process: whether it runs and has built its APICache
    cache_mem,     \* per process: APICache._memory_cache
    cache_files,   \* the cache directory: the data file of each key
    cache_index,   \* the cache directory: index.json
    cache_stored,  \* history: per key, the value and expiry of the latest set
    cache_got      \* history: the latest get, its result and what was stored,
                   \* and the count of sets so far

cache_vars == <<cache_clock, cache_up, cache_mem, cache_files, cache_index,
                cache_stored, cache_got>>

VARIABLES
    side_prices,   \* "outcomePrices" of one fetched market, as parsed
    side_pick      \* "_recommended_side" and "_entry_price" of that market

side_vars == <<side_prices, side_pick>>

VARIABLES
    corr_opps,     \* the opportunities list handed to _adjust_for_correlations
    corr_opp,      \* per opportunity: risk_score and correlation_risk
    corr_related,  \* pairs <<a, b>>: a has b in its related_markets
    corr_before,   \* history: corr_opp as it was handed over
    corr_done      \* whether the adjustment has run

corr_vars == <<corr_opps, corr_opp, corr_related, corr_before, corr_done>>

VARIABLES
    cpy_clock,       \* time.time(), in whole seconds
    cpy_trades,      \* upstream: per trade of the followed wallet, its timestamp
    cpy_last_check,  \* configs.json: last_check_timestamp of the follow
    cpy_copied,      \* CopyTrader.copied_trade_ids of the running daemon
    cpy_activities,  \* process_config: what fetch_activity returned
    cpy_pc,          \* where the daemon stands; "down" when it does not run
    cpy_orders       \* history: per upstream trade, the copy orders placed

copy_vars == <<cpy_clock, cpy_trades, cpy_last_check, cpy_copied,
               cpy_activities, cpy_pc, cpy_orders>>

vars == <<cp_vars, mon_vars, daemon_vars, store_vars,
          ct_vars,
          sd_vars,
          scan_vars,
          rl_vars,
          ai_vars,
          cache_vars,
          side_vars,
          corr_vars,
          copy_vars>>

None == 0 - 1

(* Python truthiness of an Optional[float]: None and 0.0 are falsy. *)
Truthy(x) == x # None /\ x # 0

Max2(a, b) == IF a >= b THEN a ELSE b

Abs(a) == IF a >= 0 THEN a ELSE 0 - a

(* ---------------------------------------------------------------------- *)
(* Bounds                                                                 *)
(* ---------------------------------------------------------------------- *)

(* Largest number of price levels per side of an order book. *)
MaxLevels == 2

(* Polling cycles of one monitor run that are explored. *)
MaxCycles == 2

(* Changes others make to the upstream positions during one run. *)
MaxEnvSteps == 1

(* ---------------------------------------------------------------------- *)
(* Program constants                                                      *)
(* ---------------------------------------------------------------------- *)

(* profit_monitor.py:223  best_ask defaults to 1.0 when there are no asks *)
DefaultAsk == 1000
(* profit_monitor.py:227  spread defaults to 1.0 when there is no bid     *)
DefaultSpread == 1000
(* profit_monitor.py:253  stop-loss needs spread < 0.50                   *)
SpreadLimit == 500
(* profit_monitor.py:365  sell_price = max(sl_price - 0.001, 0.01)        *)
PriceStep == 1
PriceFloor == 10
(* profit_monitor.py:348  abs(actual_size - config.shares) > 0.01         *)
SizeTolerance == 1

(* ---------------------------------------------------------------------- *)
(* PositionConfig (monitor_config.py)                                     *)
(* ---------------------------------------------------------------------- *)

PositionConfig(id, token_id, shares, entry_price, tp_price, sl_price) ==
    [id |-> id, token_id |-> token_id, shares |-> shares,
     entry_price |-> entry_price,
     take_profit_pct |-> None, take_profit_price |-> tp_price,
     stop_loss_pct |-> None, stop_loss_price |-> sl_price,
     enabled |-> TRUE]

(* Percentages are whole percents: entry * (1 + pct) = entry*(100+pct)/100 *)
get_tp_target(config) ==
    IF Truthy(config.take_profit_price) THEN config.take_profit_price
    ELSE IF Truthy(config.take_profit_pct)
         THEN (config.entry_price * (100 + config.take_profit_pct)) \div 100
         ELSE None

get_sl_target(config) ==
    IF Truthy(config.stop_loss_price) THEN config.stop_loss_price
    ELSE IF Truthy(config.stop_loss_pct)
         THEN (config.entry_price * (100 - config.stop_loss_pct)) \div 100
         ELSE None

(* ---------------------------------------------------------------------- *)
(* Order books                                                            *)
(* ---------------------------------------------------------------------- *)

(* Prices at which resting bids and asks appear in the modelled books. *)
BidPrices == {5, 200, 850}

AskPrices == {200, 700}

SeqsUpTo(S, n) == UNION {[1..k -> S] : k \in 0..n}

(* What client.get_order_book answers: the two sides in the order the     *)
(* venue sent them, or an error.  Order sizes never enter a decision of    *)
(* check_position and are left out.                                        *)
RawBooks ==
    [err : {FALSE}, bids : SeqsUpTo(BidPrices, MaxLevels),
                    asks : SeqsUpTo(AskPrices, MaxLevels)]
    \cup {[err |-> TRUE, bids |-> <<>>, asks |-> <<>>]}

RECURSIVE InsertDesc(_, _)
InsertDesc(x, s) ==
    IF s = <<>> THEN <<x>>
    ELSE IF x >= Head(s) THEN <<x>> \o s
    ELSE <<Head(s)>> \o InsertDesc(x, Tail(s))

RECURSIVE SortDesc(_)
SortDesc(s) == IF s = <<>> THEN <<>> ELSE InsertDesc(Head(s), SortDesc(Tail(s)))

RECURSIVE InsertAsc(_, _)
InsertAsc(x, s) ==
    IF s = <<>> THEN <<x>>
    ELSE IF x <= Head(s) THEN <<x>> \o s
    ELSE <<Head(s)>> \o InsertAsc(x, Tail(s))

RECURSIVE SortAsc(_)
SortAsc(s) == IF s = <<>> THEN <<>> ELSE InsertAsc(Head(s), SortAsc(Tail(s)))

(* bids highest first, asks lowest first; an error gives the empty book *)
get_full_order_book(raw) ==
    IF raw.err THEN [asks |-> <<>>, bids |-> <<>>]
    ELSE [asks |-> SortAsc(raw.asks), bids |-> SortDesc(raw.bids)]

(* find_bids_at_price fetches the book again; only "best_bid" and "found" *)
(* are read by the caller.                                                *)
find_bids_at_price(raw, min_price) ==
    LET bids_sorted == SortDesc(get_full_order_book(raw).bids)
        matching == SelectSeq(bids_sorted, LAMBDA p : p >= min_price)
    IN [found |-> Len(matching) > 0,
        count |-> Len(matching),
        best_bid |-> IF bids_sorted # <<>> THEN bids_sorted[1] ELSE 0]

(* The books find_bids_at_price can be answered with: it reads bids only. *)
TpRawBooks == {b \in RawBooks : b.asks = <<>>}

(* ---------------------------------------------------------------------- *)
(* ProfitMonitor.check_position                                           *)
(* ---------------------------------------------------------------------- *)

NoDetails ==
    [best_bid |-> None, best_ask |-> None, midpoint_x2 |-> None,
     spread |-> None, tp_target |-> None, sl_target |-> None,
     tp_best_bid |-> None, sl_triggered_at |-> None, sl_skipped |-> FALSE]

(* Mutant of tp_hit: a strict comparison with the target. *)
tp_hit_strict(tp_target, bids_info) ==
    Truthy(tp_target) /\ bids_info.best_bid > tp_target

(* Take profit: the best bid is at or above the target (:239-242). *)
tp_hit(tp_target, bids_info) ==
    Truthy(tp_target) /\ bids_info.best_bid >= tp_target

(* Mutant of sl_hit: the thin-market guard on the spread is left out. *)
sl_hit_no_guard(sl_target, midpoint_x2, spread) ==
    Truthy(sl_target) /\ midpoint_x2 > 0 /\ midpoint_x2 <= 2 * sl_target

(* Stop loss: a reasonable spread and a midpoint at or below the target  *)
(* (:249-253).                                                           *)
sl_hit(sl_target, midpoint_x2, spread) ==
    /\ Truthy(sl_target) /\ midpoint_x2 > 0
    /\ spread < SpreadLimit /\ midpoint_x2 <= 2 * sl_target

(* raw is the book fetched at profit_monitor.py:221, tp_raw the one       *)
(* fetched again inside find_bids_at_price at :240.  midpoint_x2 is twice *)
(* the midpoint, so that it stays an integer.                             *)
check_position(config, sold, raw, tp_raw) ==
    IF config.token_id \in sold
    THEN [action |-> "already_sold", details |-> NoDetails]
    ELSE
    LET tp_target == get_tp_target(config)
        sl_target == get_sl_target(config)
        book == get_full_order_book(raw)
        best_bid == IF book.bids # <<>> THEN book.bids[1] ELSE 0
        best_ask == IF book.asks # <<>> THEN book.asks[1] ELSE DefaultAsk
        midpoint_x2 == IF best_bid > 0 THEN best_bid + best_ask ELSE 2 * best_ask
        spread == IF best_bid > 0 THEN best_ask - best_bid ELSE DefaultSpread
        bids_info == find_bids_at_price(tp_raw, tp_target)
        details == [best_bid |-> best_bid, best_ask |-> best_ask,
                    midpoint_x2 |-> midpoint_x2, spread |-> spread,
                    tp_target |-> tp_target, sl_target |-> sl_target,
                    tp_best_bid |-> None, sl_triggered_at |-> None,
                    sl_skipped |-> FALSE]
    IN  IF tp_hit(tp_target, bids_info)
        THEN [action |-> "take_profit",
              details |-> [details EXCEPT !.tp_best_bid = bids_info.best_bid]]
        ELSE IF sl_hit(sl_target, midpoint_x2, spread)
        THEN [action |-> "stop_loss",
              details |-> [details EXCEPT !.sl_triggered_at = best_bid]]
        ELSE [action |-> "hold",
              details |-> [details EXCEPT !.sl_skipped =
                              (Truthy(sl_target) /\ midpoint_x2 > 0
                               /\ spread >= SpreadLimit)]]

(* ---------------------------------------------------------------------- *)
(* SpecCheck: check_position as a function of its inputs                  *)
(* ---------------------------------------------------------------------- *)

CheckConfigs ==
    {PositionConfig("c1", "t1", 1000, 500, tp, sl) :
        tp \in {None, 200, 800}, sl \in {None, 200, 450}}

NoResult == [action |-> "none", details |-> NoDetails]

ErrBook == [err |-> TRUE, bids |-> <<>>, asks |-> <<>>]

(* the value of the two variables in the specifications that call        *)
(* check_position from the monitor loop instead                          *)
CpIdle ==
    /\ cp_in = [config |-> PositionConfig("c1", "t1", 1000, 500, None, None),
                sold_tokens |-> {}, raw |-> ErrBook, tp_raw |-> ErrBook]
    /\ cp_out = NoResult

CpInit ==
    /\ cp_in \in [config : CheckConfigs, sold_tokens : {{}, {"t1"}},
                  raw : RawBooks, tp_raw : TpRawBooks]
    /\ cp_out = NoResult

CheckPosition ==
    /\ cp_out.action = "none"
    /\ cp_out' = check_position(cp_in.config, cp_in.sold_tokens,
                                cp_in.raw, cp_in.tp_raw)
    /\ UNCHANGED cp_in

(* The best prices of a raw book, read off the set of its levels. *)
SeqRange(s) == {s[i] : i \in 1..Len(s)}

RawBestBid(raw) ==
    IF raw.err \/ raw.bids = <<>> THEN 0
    ELSE CHOOSE p \in SeqRange(raw.bids) : \A q \in SeqRange(raw.bids) : q <= p

RawBestAsk(raw) ==
    IF raw.err \/ raw.asks = <<>> THEN DefaultAsk
    ELSE CHOOSE p \in SeqRange(raw.asks) : \A q \in SeqRange(raw.asks) : q >= p

CpHeld == cp_in.config.token_id \notin cp_in.sold_tokens

CpTpHit ==
    /\ Truthy(cp_in.config.take_profit_price)
    /\ RawBestBid(cp_in.tp_raw) >= cp_in.config.take_profit_price

CpWideSpread == RawBestAsk(cp_in.raw) - RawBestBid(cp_in.raw) >= SpreadLimit

C2_TakeProfitOnBestBid ==
    (cp_out.action # "none" /\ CpHeld /\ CpTpHit) =>
        cp_out.action = "take_profit"

(* take_profit on a book whose spread is 0.50 or more *)
C2_Witness ==
    /\ cp_out.action = "take_profit"
    /\ CpHeld /\ CpTpHit /\ CpWideSpread
    /\ cp_out.details.tp_best_bid >= cp_out.details.tp_target

(* ---------------------------------------------------------------------- *)
(* The monitor run: persisted configs, upstream positions, run()          *)
(* ---------------------------------------------------------------------- *)

Tokens == {"t1", "t2"}

(* The configs that can be in the table when a monitor is launched.  c1   *)
(* and c3 are on the same token: the table has no constraint against it.  *)
ConfigUniverse ==
    {PositionConfig("c1", "t1", 1000, 500, 800, 200),
     PositionConfig("c2", "t2", 500, 600, None, 450),
     PositionConfig("c3", "t1", 1000, 500, 200, None)}

ConfigIds == {c.id : c \in ConfigUniverse}

(* Share counts a token can be held in upstream, and those it is held in *)
(* when a monitor is launched.                                            *)
Sizes == {0, 1000, 1001}

InitSizes == {0, 1000}

(* The books the monitor loop is answered with: one level per side at    *)
(* most (sorting is exercised by SpecCheck).                              *)
MonRawBooks == {b \in RawBooks : Len(b.bids) <= 1 /\ Len(b.asks) <= 1}

MonTpRawBooks == {b \in TpRawBooks : Len(b.bids) <= 1}

Ids(cs) == {cs[i].id : i \in 1..Len(cs)}

(* ORDER BY created_at: ids are handed out in creation order. *)
RECURSIVE OrderById(_)
OrderById(rows) ==
    IF rows = {} THEN <<>>
    ELSE LET first == CHOOSE r \in rows : \A q \in rows : r.id = q.id \/
                          (\E i \in 1..3 : r.id = <<"c1", "c2", "c3">>[i] /\
                             \A j \in 1..3 : q.id = <<"c1", "c2", "c3">>[j] => i <= j)
         IN <<first>> \o OrderById(rows \ {first})

list_enabled(rows) == OrderById({r \in rows : r.enabled})

(* Mutant of delete: the row stays in the table. *)
delete_noop(rows, config_id) == rows

(* MonitorConfigManager.delete: DELETE ... WHERE id = config_id *)
delete(rows, config_id) == {r \in rows : r.id # config_id}

(* client.get_positions: the positions held, [] on a non-200 answer, or   *)
(* an exception of the HTTP session.                                      *)
PositionsAnswers == {"ok", "not200", "raise"}

get_positions(answer) ==
    IF answer = "ok"
    THEN {[asset |-> t, size |-> positions[t]] : t \in {u \in Tokens : positions[u] > 0}}
    ELSE {}

(* get_actual_position_size: size of the listed position, 0 when it is    *)
(* not listed and 0 when the query raised.                                *)
get_actual_position_size(answer, token_id) ==
    IF answer = "raise" THEN 0
    ELSE LET listed == {p \in get_positions(answer) : p.asset = token_id}
         IN IF listed = {} THEN 0 ELSE (CHOOSE p \in listed : TRUE).size

(* What place_order answers, as execute_sell returns it: "success",       *)
(* "orderID" present or not, and whether the error text contains          *)
(* "balance" / "allowance" (compared in lower case).  An exception gives  *)
(* success False with its text as the error.                              *)
SellResults ==
    [success : BOOLEAN, orderID : BOOLEAN,
     err_balance : BOOLEAN, err_allowance : BOOLEAN]

is_sold(result) == result.success \/ result.orderID

mentions_balance(result) == result.err_balance \/ result.err_allowance

(* Mutant of valid_configs: the orphans are kept. *)
valid_configs_keep_all(cfgs, tokens) == cfgs

(* run(): the configs whose token is among the listed positions (:274-280) *)
valid_configs(cfgs, tokens) ==
    SelectSeq(cfgs, LAMBDA c : c.token_id \in tokens)

(* Mutant of del_active: the config stays in active_configs. *)
del_active_noop(active, config_id) == active

(* Mutant of del_active: the whole dict is emptied. *)
del_active_clears(active, config_id) == <<>>

(* del active_configs[config_id] *)
del_active(active, config_id) ==
    SelectSeq(active, LAMBDA c : c.id # config_id)

(* Mutant of sl_sell_price: the floor of 0.01 is left out. *)
sl_sell_price_no_floor(sl_price) == sl_price - PriceStep

(* sell_price = max(sl_price - 0.001, 0.01)  (:365) *)
sl_sell_price(sl_price) == Max2(sl_price - PriceStep, PriceFloor)

(* Mutant of position_gone: a size of exactly zero is not treated as gone. *)
position_gone_strict(size) == size < 0

(* actual_size <= 0  (:343, :383) *)
position_gone(size) == size <= 0

(* Mutant of needs_retry: any difference in size leads to a retry. *)
needs_retry_any_difference(size, shares) == size # shares

(* abs(actual_size - config.shares) > 0.01  (:348, :388) *)
needs_retry(size, shares) == Abs(size - shares) > SizeTolerance

NoSell ==
    [config_id |-> "none", kind |-> "none", attempt |-> 0, size |-> None,
     price |-> None, shares |-> None, target |-> None, best_bid |-> None]

NoRecovery ==
    [config_id |-> "none", actual_size |-> None, retries |-> 0,
     retry_size |-> None, open |-> FALSE]

NoConfig == PositionConfig("none", "none", 0, 0, None, None)

MonIdle ==
    /\ monitor_configs = {}
    /\ positions = [t \in Tokens |-> 0]
    /\ pc = "idle"
    /\ configs = <<>>
    /\ position_tokens = {}
    /\ active_configs = <<>>
    /\ todo = <<>>
    /\ cur = NoConfig
    /\ check_result = NoResult
    /\ sell_price = None
    /\ actual_size = None
    /\ sold_tokens = {}
    /\ running = TRUE
    /\ cycle = 0
    /\ env_steps = 0
    /\ last_sell = NoSell
    /\ recov = NoRecovery
    /\ sold_ok = {}
    /\ gone = {}
    /\ cycle_tokens = {}

(* profit_monitor.py __main__: configs = list_enabled(); exit when there  *)
(* is none; ProfitMonitor() with running = True and no sold tokens.       *)
MonInit ==
    /\ monitor_configs \in (SUBSET ConfigUniverse) \ {{}}
    /\ positions \in [Tokens -> InitSizes]
    /\ pc = "start"
    /\ configs = list_enabled(monitor_configs)
    /\ position_tokens = {}
    /\ active_configs = <<>>
    /\ todo = <<>>
    /\ cur = NoConfig
    /\ check_result = NoResult
    /\ sell_price = None
    /\ actual_size = None
    /\ sold_tokens = {}
    /\ running = TRUE
    /\ cycle = 0
    /\ env_steps = 0
    /\ last_sell = NoSell
    /\ recov = NoRecovery
    /\ sold_ok = {}
    /\ gone = {}
    /\ cycle_tokens = {}

(* run() :270-297: the start-up positions query and the orphan cleanup.   *)
(* An exception of the query leaves run().                                *)
Cleanup ==
    /\ pc = "start"
    /\ \E answer \in PositionsAnswers :
         IF answer = "raise"
         THEN /\ pc' = "crashed"
              /\ UNCHANGED <<monitor_configs, position_tokens, active_configs>>
         ELSE LET tokens == {p.asset : p \in get_positions(answer)}
                  valid == valid_configs(configs, tokens)
                  orphans == Ids(configs) \ Ids(valid)
              IN /\ position_tokens' = tokens
                 /\ monitor_configs' = {r \in monitor_configs : r.id \notin orphans}
                 /\ active_configs' = valid
                 /\ pc' = "loop"
    /\ last_sell' = NoSell
    /\ UNCHANGED <<positions, configs, todo, cur, check_result, sell_price,
                   actual_size, sold_tokens, running, cycle, env_steps,
                   recov, sold_ok, gone, cycle_tokens>>

(* run() :299-304: the loop test, check_and_redeem (which redeems some of *)
(* the positions upstream lists as redeemable) and the snapshot           *)
(* list(active_configs.items()).                                          *)
BeginCycle ==
    /\ pc = "loop"
    /\ running /\ active_configs # <<>>
    /\ cycle < MaxCycles
    /\ \E redeemed \in SUBSET {t \in Tokens : positions[t] > 0} :
         /\ Cardinality(redeemed) <= 1
         /\ positions' = [t \in Tokens |-> IF t \in redeemed THEN 0 ELSE positions[t]]
    /\ cycle' = cycle + 1
    /\ cycle_tokens' = IF cycle = 0 THEN position_tokens
                       ELSE {t \in Tokens : positions[t] > 0}
    /\ todo' = active_configs
    /\ pc' = "check"
    /\ last_sell' = NoSell
    /\ UNCHANGED <<monitor_configs, configs, position_tokens, active_configs,
                   cur, check_result, sell_price, actual_size, sold_tokens,
                   running, env_steps, recov, sold_ok, gone>>

(* run() :299, :424: the loop is left when nothing is monitored *)
LoopExit ==
    /\ pc = "loop"
    /\ ~(running /\ active_configs # <<>>)
    /\ pc' = "stopped"
    /\ last_sell' = NoSell
    /\ UNCHANGED <<monitor_configs, positions, configs, position_tokens,
                   active_configs, todo, cur, check_result, sell_price,
                   actual_size, sold_tokens, running, cycle, env_steps,
                   recov, sold_ok, gone, cycle_tokens>>

(* run() :306-309: the next config of the cycle and its check_position *)
Check ==
    /\ pc = "check" /\ todo # <<>>
    /\ cur' = Head(todo)
    /\ todo' = Tail(todo)
    /\ \E raw \in MonRawBooks, tp_raw \in MonTpRawBooks :
         check_result' = check_position(Head(todo), sold_tokens, raw, tp_raw)
    /\ pc' = "handle"
    /\ last_sell' = NoSell
    /\ recov' = NoRecovery
    /\ UNCHANGED <<monitor_configs, positions, configs, position_tokens,
                   active_configs, sell_price, actual_size, sold_tokens,
                   running, cycle, env_steps, sold_ok, gone, cycle_tokens>>

(* the three statements of every "SOLD" / "no longer exists" branch *)
Remove(config) ==
    /\ sold_tokens' = sold_tokens \cup {config.token_id}
    /\ monitor_configs' = delete(monitor_configs, config.id)
    /\ active_configs' = del_active(active_configs, config.id)

(* The loop body is done with cur: on to the next config.  The locals of *)
(* the iteration are not read again before they are assigned.            *)
NextIteration ==
    /\ pc' = "check"
    /\ cur' = NoConfig
    /\ check_result' = NoResult
    /\ sell_price' = None
    /\ actual_size' = None

(* run() :322-337 and :359-376: the sell submitted on a trigger, for      *)
(* config.shares at price.                                                *)
FirstSell(kind, price, target) ==
    \E result \in SellResults :
      /\ last_sell' = [config_id |-> cur.id, kind |-> kind, attempt |-> 1,
                       size |-> cur.shares, price |-> price,
                       shares |-> cur.shares, target |-> target,
                       best_bid |-> check_result.details.best_bid]
      /\ IF is_sold(result)
         THEN /\ Remove(cur)
              /\ sold_ok' = sold_ok \cup {cur.id}
              /\ NextIteration
              /\ UNCHANGED recov
         ELSE /\ UNCHANGED <<sold_tokens, monitor_configs, active_configs, sold_ok>>
              /\ IF mentions_balance(result)
                 THEN /\ pc' = "requery"
                      /\ sell_price' = price
                      /\ recov' = [NoRecovery EXCEPT !.config_id = cur.id,
                                                     !.open = TRUE]
                      /\ UNCHANGED <<cur, check_result, actual_size>>
                 ELSE /\ NextIteration
                      /\ UNCHANGED recov

HandleTakeProfit ==
    /\ pc = "handle" /\ check_result.action = "take_profit"
    /\ FirstSell("take_profit", get_tp_target(cur), get_tp_target(cur))
    /\ UNCHANGED <<positions, configs, position_tokens, todo, running, cycle,
                   env_steps, gone, cycle_tokens>>

HandleStopLoss ==
    /\ pc = "handle" /\ check_result.action = "stop_loss"
    /\ FirstSell("stop_loss",
                 sl_sell_price(check_result.details.sl_triggered_at),
                 get_sl_target(cur))
    /\ UNCHANGED <<positions, configs, position_tokens, todo, running, cycle,
                   env_steps, gone, cycle_tokens>>

(* run() :399-402 *)
HandleAlreadySold ==
    /\ pc = "handle" /\ check_result.action = "already_sold"
    /\ monitor_configs' = delete(monitor_configs, cur.id)
    /\ active_configs' = del_active(active_configs, cur.id)
    /\ NextIteration
    /\ last_sell' = NoSell
    /\ UNCHANGED <<positions, configs, position_tokens, todo, sold_tokens,
                   running, cycle, env_steps, recov, sold_ok, gone,
                   cycle_tokens>>

(* run() :404-410 *)
HandleHold ==
    /\ pc = "handle" /\ check_result.action = "hold"
    /\ NextIteration
    /\ last_sell' = NoSell
    /\ UNCHANGED <<monitor_configs, positions, configs, position_tokens,
                   active_configs, todo, sold_tokens, running, cycle,
                   env_steps, recov, sold_ok, gone, cycle_tokens>>

(* run() :339-348 and :379-388: after a balance / allowance failure the   *)
(* position size is asked for again.                                      *)
Requery ==
    /\ pc = "requery"
    /\ \E answer \in PositionsAnswers :
         LET size == get_actual_position_size(answer, cur.token_id)
         IN /\ gone' = IF size <= 0 THEN gone \cup {cur.id} ELSE gone
            /\ IF position_gone(size)
               THEN /\ Remove(cur)
                    /\ NextIteration
                    /\ recov' = [recov EXCEPT !.actual_size = size, !.open = FALSE]
               ELSE /\ UNCHANGED <<sold_tokens, monitor_configs, active_configs>>
                    /\ IF needs_retry(size, cur.shares)
                       THEN /\ pc' = "retry"
                            /\ actual_size' = size
                            /\ recov' = [recov EXCEPT !.actual_size = size]
                            /\ UNCHANGED <<cur, check_result, sell_price>>
                       ELSE /\ NextIteration
                            /\ recov' = [recov EXCEPT !.actual_size = size,
                                                      !.open = FALSE]
    /\ last_sell' = NoSell
    /\ UNCHANGED <<positions, configs, position_tokens, todo, running, cycle,
                   env_steps, sold_ok, cycle_tokens>>

(* run() :349-357 and :389-397: the retry with the actual size *)
Retry ==
    /\ pc = "retry"
    /\ \E result \in SellResults :
         /\ last_sell' = [config_id |-> cur.id, kind |-> check_result.action,
                          attempt |-> 2, size |-> actual_size,
                          price |-> sell_price, shares |-> cur.shares,
                          target |-> IF check_result.action = "take_profit"
                                     THEN get_tp_target(cur)
                                     ELSE get_sl_target(cur),
                          best_bid |-> check_result.details.best_bid]
         /\ recov' = [recov EXCEPT !.retries = @ + 1,
                                   !.retry_size = actual_size,
                                   !.open = FALSE]
         /\ IF is_sold(result)
            THEN /\ Remove(cur)
                 /\ sold_ok' = sold_ok \cup {cur.id}
            ELSE UNCHANGED <<sold_tokens, monitor_configs, active_configs, sold_ok>>
    /\ NextIteration
    /\ UNCHANGED <<positions, configs, position_tokens, todo, running, cycle,
                   env_steps, gone, cycle_tokens>>

(* run() :414-422: the end of a cycle: leave when nothing is monitored,   *)
(* else sleep check_interval and test the loop condition again.           *)
EndCycle ==
    /\ pc = "check" /\ todo = <<>>
    /\ pc' = IF active_configs = <<>> THEN "stopped" ELSE "loop"
    /\ last_sell' = NoSell
    /\ recov' = NoRecovery
    /\ UNCHANGED <<monitor_configs, positions, configs, position_tokens,
                   active_configs, todo, cur, check_result, sell_price,
                   actual_size, sold_tokens, running, cycle, env_steps,
                   sold_ok, gone, cycle_tokens>>

(* Others trade the account while the monitor runs: a position is sold,   *)
(* partly sold or bought upstream.                                        *)
UpstreamChange ==
    /\ pc \notin {"idle", "stopped", "crashed"}
    /\ env_steps < MaxEnvSteps
    /\ \E t \in Tokens, size \in Sizes :
         /\ size # positions[t]
         /\ positions' = [positions EXCEPT ![t] = size]
    /\ env_steps' = env_steps + 1
    /\ UNCHANGED <<monitor_configs, pc, configs, position_tokens,
                   active_configs, todo, cur, check_result, sell_price,
                   actual_size, sold_tokens, running, cycle, last_sell,
                   recov, sold_ok, gone, cycle_tokens>>

(* ---------------------------------------------------------------------- *)
(* Properties of the monitor run                                          *)
(* ---------------------------------------------------------------------- *)

RowIds == {r.id : r \in monitor_configs}

InIteration == pc \in {"handle", "requery", "retry"}

(* The state of a monitored position, read off the monitor: a config is   *)
(* monitored from the end of the start-up cleanup on.                     *)
PState(c) ==
    IF pc \in {"idle", "start"} \/ c.id \notin Ids(configs) THEN "unmonitored"
    ELSE IF c.id \notin Ids(active_configs) THEN "removed"
    ELSE IF InIteration /\ cur.id = c.id
    THEN CASE check_result.action = "take_profit" -> "take_profit_triggered"
           [] check_result.action = "stop_loss" -> "stop_loss_triggered"
           [] check_result.action = "already_sold" -> "already_sold"
           [] OTHER -> "holding"
    ELSE "holding"

SpecTransitions ==
    {<<"holding", "take_profit_triggered">>,
     <<"holding", "stop_loss_triggered">>,
     <<"holding", "already_sold">>,
     <<"take_profit_triggered", "removed">>,
     <<"stop_loss_triggered", "removed">>,
     <<"already_sold", "removed">>}

FailedSellTransitions ==
    {<<"take_profit_triggered", "holding">>,
     <<"stop_loss_triggered", "holding">>}

Moves(allowed) ==
    \A c \in ConfigUniverse :
        (PState(c) # PState(c)' /\ PState(c) # "unmonitored")
            => <<PState(c), PState(c)'>> \in allowed

(* C3 as stated: a monitored position only moves holding -> take-profit / *)
(* stop-loss triggered / already_sold -> removed.                         *)
C3_OnlySpecTransitions == [][Moves(SpecTransitions)]_vars

(* C3 amended: those transitions, and a triggered position goes back to   *)
(* holding when its sell (and the corrective retry, if one is made) fails. *)
C3_TransitionsWithFailedSell ==
    [][Moves(SpecTransitions \cup FailedSellTransitions)]_vars

(* a position back at holding after its sell and the retry both failed,   *)
(* next to one removed by a successful sell                               *)
C3_Witness ==
    /\ pc = "check"
    /\ recov.retries = 1
    /\ \E c \in ConfigUniverse : recov.config_id = c.id /\ PState(c) = "holding"
    /\ \E c \in ConfigUniverse : c.id \in sold_ok /\ PState(c) = "removed"

(* C4: once a triggered sell of a config has succeeded (first attempt or  *)
(* retry), its row is deleted and the run never evaluates it again: it is *)
(* in neither active_configs nor the rest of the cycle.                   *)
C4_SoldIsRemoved ==
    \A id \in sold_ok :
        /\ id \notin RowIds
        /\ id \notin Ids(active_configs)
        /\ id \notin Ids(todo)
        /\ cur.id # id

(* a sell that succeeded on the corrective retry, another config still    *)
(* being monitored                                                        *)
C4_Witness ==
    /\ last_sell.attempt = 2
    /\ last_sell.config_id \in sold_ok
    /\ active_configs # <<>>

SharesOf(id) == (CHOOSE c \in ConfigUniverse : c.id = id).shares

TokenOf(id) == (CHOOSE c \in ConfigUniverse : c.id = id).token_id

RecoveryClosed == recov.config_id # "none" /\ ~recov.open

(* C5 as stated: each balance / allowance failure that finds the position *)
(* still held is followed by exactly one corrective retry.                *)
C5_ExactlyOneRetry ==
    (RecoveryClosed /\ recov.actual_size > 0) => recov.retries = 1

(* C5 amended: the size is asked for again, and the sell is retried, once *)
(* and with that size, exactly when that size is positive and differs     *)
(* from the configured share count by more than 0.01; otherwise no retry. *)
C5_RetryOnlyOnDifferentSize ==
    recov.config_id # "none" =>
        /\ recov.retries <= 1
        /\ recov.open => recov.retries = 0
        /\ ~recov.open =>
             /\ recov.actual_size # None
             /\ (recov.retries = 1) <=>
                   (/\ recov.actual_size > 0
                    /\ Abs(recov.actual_size - SharesOf(recov.config_id))
                          > SizeTolerance)
        /\ recov.retries = 1 =>
             /\ recov.retry_size = recov.actual_size
             /\ last_sell.attempt = 2
             /\ last_sell.size = recov.actual_size
             /\ last_sell.config_id = recov.config_id

(* a corrective retry was made, with a size other than the configured one *)
C5_Witness ==
    /\ RecoveryClosed
    /\ recov.retries = 1
    /\ last_sell.size # last_sell.shares

(* C6: a config whose re-queried size was zero (or less) is removed: its  *)
(* token is recorded as sold, its row and its entry in active_configs are *)
(* gone, and no sell is submitted for it any more.                        *)
C6_GoneIsRemovedWithoutSell ==
    \A id \in gone :
        /\ TokenOf(id) \in sold_tokens
        /\ id \notin RowIds
        /\ id \notin Ids(active_configs)
        /\ id \notin Ids(todo)
        /\ cur.id # id
        /\ last_sell.config_id # id

(* the run goes on after a position was found gone *)
C6_Witness ==
    /\ gone # {}
    /\ recov.actual_size = 0
    /\ active_configs # <<>>

(* C7 as stated: in every cycle, a config that is evaluated had its       *)
(* position upstream when the cycle began.                                *)
C7_ReconciledEveryCycle ==
    pc = "handle" => cur.token_id \in cycle_tokens

CleanupDone == pc \notin {"idle", "start", "crashed"}

(* C7 amended: the cleanup is made once, when run() starts: every config  *)
(* whose token the start-up positions query did not list is deleted and   *)
(* never evaluated; it is not repeated in later cycles.                   *)
C7_ReconciledAtStart ==
    CleanupDone =>
        /\ \A i \in 1..Len(configs) :
              configs[i].token_id \notin position_tokens =>
                  /\ configs[i] \notin monitor_configs
                  /\ configs[i].id \notin Ids(active_configs)
        /\ InIteration => cur.token_id \in position_tokens

(* an orphan was dropped and another config is being evaluated *)
C7_Witness ==
    /\ pc = "handle"
    /\ \E i \in 1..Len(configs) :
          /\ configs[i].token_id \notin position_tokens
          /\ configs[i] \notin monitor_configs

C29_NoDeleteOnFailedQuery ==
    [][\A r \in monitor_configs \ monitor_configs' :
          pc \in {"start", "requery"} => positions[r.token_id] <= 0]_vars

(* ---------------------------------------------------------------------- *)
(* The monitor daemon and the paths that start and stop it                *)
(* (profit_monitor.py main, monitor_config.py daemon_state accessors,     *)
(* main.py cmd_pm_start / stop_monitor_sync / start_monitor_sync /        *)
(* restart_monitor_if_running, web_api.py pm_start / _stop_monitor /      *)
(* _restart_monitor_if_running).                                          *)
(* ---------------------------------------------------------------------- *)

\* Process ids the operating system hands out, in order; none is reused.
MaxPids == 3

Pids == 1..MaxPids

\* The callers of the start / stop / restart code: a main.py command and a
\* web_api.py request handler, which run in different processes or threads.
Callers == {"cli", "web"}

\* os.kill(pid, 0) does not raise ProcessLookupError.
Alive(p) == proc[p] \in {"spawned", "running", "terminating"}

\* get_monitor_pid(): the recorded pid if its process exists, else None ...
get_monitor_pid == 
    IF daemon_pid = None THEN None
    ELSE IF Alive(daemon_pid) THEN daemon_pid ELSE None

\* ... and a recorded pid whose process is gone is cleared on the way.
marker_after_get ==
    IF daemon_pid # None /\ ~Alive(daemon_pid) THEN None ELSE daemon_pid

is_monitor_running == get_monitor_pid # None

IdleCaller == [pc |-> "idle", target |-> None]

DaemonIdle ==
    /\ daemon_pid = None
    /\ proc = [p \in Pids |-> "none"]
    /\ caller = [c \in Callers |-> IdleCaller]
    /\ next_pid = 1

DaemonInit == DaemonIdle

\* subprocess.Popen("nohup python -u profit_monitor.py &"): a new process
\* that has not yet reached main().
Popen ==
    /\ next_pid <= MaxPids
    /\ proc' = [proc EXCEPT ![next_pid] = "spawned"]
    /\ next_pid' = next_pid + 1

\* os.kill(pid, 15): a process past signal.signal() runs handle_signal,
\* one that is not is ended by the default action of SIGTERM.
Sigterm(p) ==
    proc' = [proc EXCEPT ![p] =
                IF @ = "running" THEN "terminating"
                ELSE IF @ = "spawned" THEN "killed" ELSE @]

\* The second half of stop_monitor_sync / _stop_monitor, after the sleep:
\* kill -9 if the process is still there, then clear the marker.
KillAndClear(p) ==
    /\ proc' = [proc EXCEPT ![p] = IF Alive(p) THEN "killed" ELSE @]
    /\ daemon_pid' = None

\* cmd_pm_start / pm_start, up to the check of the marker.
StartCheck(c) ==
    /\ caller[c].pc = "idle"
    /\ daemon_pid' = marker_after_get
    /\ caller' = [caller EXCEPT ![c].pc =
                     IF is_monitor_running THEN "idle" ELSE "start_spawn"]
    /\ UNCHANGED <<proc, next_pid>>

\* cmd_pm_start / pm_start: the Popen that follows a marker found empty.
StartSpawn(c) ==
    /\ caller[c].pc = "start_spawn"
    /\ Popen
    /\ caller' = [caller EXCEPT ![c].pc = "verify"]
    /\ UNCHANGED daemon_pid

\* The is_monitor_running() after the sleep that follows a Popen.
Verify(c) ==
    /\ caller[c].pc = "verify"
    /\ daemon_pid' = marker_after_get
    /\ caller' = [caller EXCEPT ![c] = IdleCaller]
    /\ UNCHANGED <<proc, next_pid>>

\* The first half of stop_monitor_sync / _stop_monitor: read the marker and
\* send SIGTERM; next is the state of the caller when there was no pid.
StopFirstHalf(c, wait, next) ==
    /\ daemon_pid' = marker_after_get
    /\ IF get_monitor_pid = None
       THEN /\ caller' = [caller EXCEPT ![c] = [pc |-> next, target |-> None]]
            /\ UNCHANGED proc
       ELSE /\ Sigterm(get_monitor_pid)
            /\ caller' = [caller EXCEPT ![c] =
                             [pc |-> wait, target |-> get_monitor_pid]]
    /\ UNCHANGED next_pid

\* pm stop / POST /api/pm/stop.
StopBegin(c) ==
    /\ caller[c].pc = "idle"
    /\ StopFirstHalf(c, "stop_wait", "idle")

StopFinish(c) ==
    /\ caller[c].pc = "stop_wait"
    /\ KillAndClear(caller[c].target)
    /\ caller' = [caller EXCEPT ![c] = IdleCaller]
    /\ UNCHANGED next_pid

\* restart_monitor_if_running / _restart_monitor_if_running: nothing is
\* done unless the marker names a live process.
RestartCheck(c) ==
    /\ caller[c].pc = "idle"
    /\ daemon_pid' = marker_after_get
    /\ caller' = [caller EXCEPT ![c].pc =
                     IF is_monitor_running THEN "restart_stop" ELSE "idle"]
    /\ UNCHANGED <<proc, next_pid>>

RestartStop(c) ==
    /\ caller[c].pc = "restart_stop"
    /\ StopFirstHalf(c, "restart_wait", "restart_spawn")

RestartWait(c) ==
    /\ caller[c].pc = "restart_wait"
    /\ KillAndClear(caller[c].target)
    /\ caller' = [caller EXCEPT ![c] = [pc |-> "restart_spawn", target |-> None]]
    /\ UNCHANGED next_pid

\* start_monitor_sync (main.py) and the tail of _restart_monitor_if_running
\* (web_api.py): Popen with no look at the marker.  Only main.py looks at
\* the marker afterwards.
RestartSpawn(c) ==
    /\ caller[c].pc = "restart_spawn"
    /\ Popen
    /\ caller' = [caller EXCEPT ![c].pc = IF c = "cli" THEN "verify" ELSE "idle"]
    /\ UNCHANGED daemon_pid

\* profit_monitor.main: signal handlers, then set_monitor_pid(os.getpid()).
Register(p) ==
    /\ proc[p] = "spawned"
    /\ proc' = [proc EXCEPT ![p] = "running"]
    /\ daemon_pid' = p
    /\ UNCHANGED <<caller, next_pid>>

\* A handler that ends the process without unwinding through main's finally.
ExitWithoutFinally(p) ==
    /\ proc[p] = "terminating"
    /\ proc' = [proc EXCEPT ![p] = "exited"]
    /\ UNCHANGED <<daemon_pid, caller, next_pid>>

\* handle_signal: sys.exit(0), and main's finally clears the marker.
ExitOnSignal(p) ==
    /\ proc[p] = "terminating"
    /\ proc' = [proc EXCEPT ![p] = "exited"]
    /\ daemon_pid' = None
    /\ UNCHANGED <<caller, next_pid>>

\* run() raises (the start-up positions query, a database error): main's
\* finally clears the marker.
ExitOnError(p) ==
    /\ proc[p] = "running"
    /\ proc' = [proc EXCEPT ![p] = "exited"]
    /\ daemon_pid' = None
    /\ UNCHANGED <<caller, next_pid>>

\* Monitor instances that have registered and are in ProfitMonitor.run.
Instances == {p \in Pids : proc[p] \in {"running", "terminating"}}

\* C9: at any time at most one instance of the monitor daemon runs.
C9_AtMostOneInstance == Cardinality(Instances) <= 1

C30_MarkerNamesLiveDaemon ==
    \A p \in Instances : daemon_pid = p

(* ---------------------------------------------------------------------- *)
(* The monitored-position store: MonitorConfigManager.add / update /      *)
(* delete / get_by_token against the monitor_configs table, as called by  *)
(* main.py and web_api.py.  db.execute commits every statement on its     *)
(* own, so the statements of concurrent callers interleave.               *)
(* ---------------------------------------------------------------------- *)

\* Values _generate_id can return.
StoreIds == {"c1", "c2", "c3"}

\* take_profit_pct arguments (whole percents).
TpPcts == {None, 20}

AddShares == 1000

AddEntryPrice == 500

\* The keyword arguments the callers pass to update(): take_profit_pct
\* and / or enabled.
NoKwargs == [has_tp |-> FALSE, take_profit_pct |-> None,
             has_enabled |-> FALSE, enabled |-> TRUE]

UpdateKwargs ==
    {[NoKwargs EXCEPT !.has_tp = TRUE, !.take_profit_pct = p] : p \in TpPcts}
    \cup {[NoKwargs EXCEPT !.has_enabled = TRUE, !.enabled = FALSE]}

\* SELECT ... FROM monitor_configs WHERE token_id = %s
rows_by_token(rows, token_id) == {r \in rows : r.token_id = token_id}

\* SELECT * FROM monitor_configs WHERE id = %s
rows_by_id(rows, config_id) == {r \in rows : r.id = config_id}

\* add(): percentages become prices, and the new PositionConfig.
new_config(config_id, token_id, tp_pct) ==
    PositionConfig(config_id, token_id, AddShares, AddEntryPrice,
                   IF tp_pct # None
                   THEN (AddEntryPrice * (100 + tp_pct)) \div 100
                   ELSE None,
                   None)

\* update(): the row read, with the keyword arguments applied.
apply_kwargs(config, kw) ==
    LET with_tp ==
            IF kw.has_tp
            THEN [config EXCEPT !.take_profit_price =
                     IF kw.take_profit_pct # None
                     THEN (config.entry_price * (100 + kw.take_profit_pct)) \div 100
                     ELSE None]
            ELSE config
    IN IF kw.has_enabled THEN [with_tp EXCEPT !.enabled = kw.enabled]
       ELSE with_tp

\* INSERT INTO monitor_configs: id is the primary key and the only
\* constraint of the table; a taken id makes the statement fail.
insert(rows, config) ==
    IF rows_by_id(rows, config.id) # {} THEN rows ELSE rows \cup {config}

\* UPDATE monitor_configs SET ... WHERE id = %s
update_row(rows, config_id, config) ==
    {IF r.id = config_id THEN config ELSE r : r \in rows}

IdleClient == [pc |-> "idle", token_id |-> "", take_profit_pct |-> None,
               config_id |-> "", kw |-> NoKwargs, config |-> NoConfig]

StoreIdle == client = [c \in Callers |-> IdleClient]

StoreInit == StoreIdle

\* cmd_pm_add, POST /api/pm/config, the trade-with-TP/SL endpoint: a call
\* of add().
PmAdd(c, token_id, tp_pct) ==
    /\ client[c].pc = "idle"
    /\ client' = [client EXCEPT ![c] =
                     [IdleClient EXCEPT !.pc = "add_select",
                                        !.token_id = token_id,
                                        !.take_profit_pct = tp_pct]]
    /\ UNCHANGED monitor_configs

\* The post-scan auto-registration and the add-all commands:
\* get_by_token(), then update() of the row found or add().
AutoRegister(c, token_id, tp_pct) ==
    /\ client[c].pc = "idle"
    /\ tp_pct # None
    /\ IF rows_by_token(monitor_configs, token_id) = {}
       THEN client' = [client EXCEPT ![c] =
                          [IdleClient EXCEPT !.pc = "add_select",
                                             !.token_id = token_id,
                                             !.take_profit_pct = tp_pct]]
       ELSE \E existing \in rows_by_token(monitor_configs, token_id) :
                client' = [client EXCEPT ![c] =
                              [IdleClient EXCEPT
                                  !.pc = "update_select",
                                  !.config_id = existing.id,
                                  !.kw = [NoKwargs EXCEPT
                                             !.has_tp = TRUE,
                                             !.take_profit_pct = tp_pct]]]
    /\ UNCHANGED monitor_configs

\* pm edit, PUT /api/pm/config/<id>: a call of update().
PmEdit(c, config_id, kw) ==
    /\ client[c].pc = "idle"
    /\ client' = [client EXCEPT ![c] =
                     [IdleClient EXCEPT !.pc = "update_select",
                                        !.config_id = config_id,
                                        !.kw = kw]]
    /\ UNCHANGED monitor_configs

\* pm remove, DELETE /api/pm/config/<id>: delete().
PmRemove(c, config_id) ==
    /\ client[c].pc = "idle"
    /\ monitor_configs' = delete(monitor_configs, config_id)
    /\ UNCHANGED client

\* add(): the SELECT by token_id; ValueError when a row exists.
AddSelect(c) ==
    /\ client[c].pc = "add_select"
    /\ client' = [client EXCEPT ![c] =
                     IF rows_by_token(monitor_configs, client[c].token_id) # {}
                     THEN IdleClient
                     ELSE [@ EXCEPT !.pc = "add_insert"]]
    /\ UNCHANGED monitor_configs

\* add(): _generate_id and the INSERT.
AddInsert(c) ==
    /\ client[c].pc = "add_insert"
    /\ \E config_id \in StoreIds :
          monitor_configs' =
              insert(monitor_configs,
                     new_config(config_id, client[c].token_id,
                                client[c].take_profit_pct))
    /\ client' = [client EXCEPT ![c] = IdleClient]

\* update(): the SELECT by id; ValueError when there is no row.
UpdateSelect(c) ==
    /\ client[c].pc = "update_select"
    /\ IF rows_by_id(monitor_configs, client[c].config_id) = {}
       THEN client' = [client EXCEPT ![c] = IdleClient]
       ELSE \E row \in rows_by_id(monitor_configs, client[c].config_id) :
                client' = [client EXCEPT ![c] =
                              [@ EXCEPT !.pc = "update_write",
                                        !.config = apply_kwargs(row, client[c].kw)]]
    /\ UNCHANGED monitor_configs

\* update(): the UPDATE of every column from the config held in memory.
UpdateWrite(c) ==
    /\ client[c].pc = "update_write"
    /\ monitor_configs' =
           update_row(monitor_configs, client[c].config_id, client[c].config)
    /\ client' = [client EXCEPT ![c] = IdleClient]

\* C10: the store holds at most one config per token id.
C10_OneConfigPerToken ==
    \A a, b \in monitor_configs : a.token_id = b.token_id => a = b

(* ---------------------------------------------------------------------- *)
(* The copy-trading config store (copy_trading_config.py): a JSON file    *)
(* that every process loads whole into CopyTradingConfigManager.configs   *)
(* and that save() rewrites whole from that dict.  Its users are the web  *)
(* API (web_api.py ct_* handlers) and the copy-trader daemon              *)
(* (copy_trader.py CopyTrader.run / process_config).                      *)
(* ---------------------------------------------------------------------- *)

\* The daemon's polling cycles are numbered by the clock.
MaxClock == 3

CtIds == {"f1", "f2"}

\* Wallet addresses as the profile search returns them; "W1" is "w1" in
\* another letter case.
Wallets == {"w1", "W1", "w2"}

\* str.lower() on a wallet address.
lower(wallet_address) == IF wallet_address = "W1" THEN "w1" ELSE wallet_address

MaxAmounts == {5, 10}

\* ct_add: max_amount when the request does not give one.
DefaultMaxAmount == 5

CtFields == {"present", "wallet_address", "max_amount", "enabled",
             "last_check_timestamp"}

\* An id that is not a key of the dict.
NoCt == [present |-> FALSE, wallet_address |-> "", max_amount |-> 0,
         enabled |-> FALSE, last_check_timestamp |-> None]

\* CopyTraderConfig(...) as add() builds it.
CopyTraderConfig(wallet_address, max_amount) ==
    [present |-> TRUE, wallet_address |-> wallet_address,
     max_amount |-> max_amount, enabled |-> TRUE,
     last_check_timestamp |-> None]

NoCts == [id \in CtIds |-> NoCt]

CtOrder == <<"f1", "f2">>

\* list_enabled(): the enabled configs, in dict order.
ct_list_enabled(cfgs) ==
    LET keep(id) == cfgs[id].present /\ cfgs[id].enabled
    IN SelectSeq(CtOrder, keep)

NoCtOp == [by |-> "none", target |-> "", fields |-> {}]

NoPending == [id |-> "", wallet_address |-> "", max_amount |-> 0]

CtIdle ==
    /\ ct_file = NoCts
    /\ ct_web = NoCts
    /\ ct_mem = NoCts
    /\ ct_pc = "idle"
    /\ ct_todo = <<>>
    /\ ct_cur = ""
    /\ ct_clock = 0
    /\ ct_restart = FALSE
    /\ ct_op = NoCtOp
    /\ ct_pending = NoPending

\* One trader is followed; the web API has loaded the file; the daemon has
\* been launched (copy_trader.py __main__) and is about to enter run().
CtInit ==
    /\ ct_file = [NoCts EXCEPT !["f1"] = CopyTraderConfig("w1", 5)]
    /\ ct_web = ct_file
    /\ ct_mem = NoCts
    /\ ct_pc = "load"
    /\ ct_todo = <<>>
    /\ ct_cur = ""
    /\ ct_clock = 0
    /\ ct_restart = FALSE
    /\ ct_op = NoCtOp
    /\ ct_pending = NoPending

\* save(): the file becomes the dict of the process that saves.
CtSave(by, cfgs, target, fields) ==
    /\ ct_file' = cfgs
    /\ ct_op' = [by |-> by, target |-> target, fields |-> fields]

\* add(): the check "already following this wallet" on the manager's dict.
already_following(cfgs, wallet_address) ==
    \E e \in CtIds :
        cfgs[e].present /\ lower(cfgs[e].wallet_address) = lower(wallet_address)

\* POST /api/ct/add: add() on the web API's manager, then the restart.
CtAdd(id, wallet_address, max_amount) ==
    /\ ~ct_restart
    /\ ~ct_web[id].present /\ ~ct_file[id].present /\ ~ct_mem[id].present
    /\ ~already_following(ct_web, wallet_address)
    /\ ct_web' = [ct_web EXCEPT ![id] = CopyTraderConfig(wallet_address, max_amount)]
    /\ CtSave("web", ct_web', id, CtFields)
    /\ ct_restart' = TRUE
    /\ UNCHANGED <<ct_mem, ct_pc, ct_todo, ct_cur, ct_clock>>
    /\ UNCHANGED ct_pending

\* add() in one request thread of the web API (app.run(threaded=True), one
\* manager for all threads) up to the end of its check; the thread is then
\* switched out before it inserts.
CtAddCheck(id, wallet_address, max_amount) ==
    /\ ~ct_restart
    /\ ct_pending = NoPending
    /\ ~ct_web[id].present /\ ~ct_file[id].present /\ ~ct_mem[id].present
    /\ ~already_following(ct_web, wallet_address)
    /\ ct_pending' = [id |-> id, wallet_address |-> wallet_address,
                      max_amount |-> max_amount]
    /\ UNCHANGED <<ct_file, ct_web, ct_mem, ct_pc, ct_todo, ct_cur, ct_clock,
                   ct_restart, ct_op>>

\* The rest of that add(): the insert into the dict as it is now, save(),
\* and the restart of the handler.
CtAddInsert ==
    /\ ~ct_restart
    /\ ct_pending # NoPending
    /\ ct_web' = [ct_web EXCEPT ![ct_pending.id] =
           CopyTraderConfig(ct_pending.wallet_address, ct_pending.max_amount)]
    /\ CtSave("web", ct_web', ct_pending.id, CtFields)
    /\ ct_restart' = TRUE
    /\ ct_pending' = NoPending
    /\ UNCHANGED <<ct_mem, ct_pc, ct_todo, ct_cur, ct_clock>>

\* PUT /api/ct/config/<id>: update() of max_amount on the web API's manager.
CtSetMaxAmount(id, max_amount) ==
    /\ ~ct_restart
    /\ ct_web[id].present
    /\ ct_web' = [ct_web EXCEPT ![id].max_amount = max_amount]
    /\ CtSave("web", ct_web', id, {"max_amount"})
    /\ ct_restart' = TRUE
    /\ UNCHANGED <<ct_mem, ct_pc, ct_todo, ct_cur, ct_clock>>
    /\ UNCHANGED ct_pending

\* PUT /api/ct/config/<id>: update() of enabled on the web API's manager.
CtSetEnabled(id, enabled) ==
    /\ ~ct_restart
    /\ ct_web[id].present
    /\ ct_web' = [ct_web EXCEPT ![id].enabled = enabled]
    /\ CtSave("web", ct_web', id, {"enabled"})
    /\ ct_restart' = TRUE
    /\ UNCHANGED <<ct_mem, ct_pc, ct_todo, ct_cur, ct_clock>>
    /\ UNCHANGED ct_pending

\* DELETE /api/ct/config/<id>: delete() on the web API's manager.
CtDelete(id) ==
    /\ ~ct_restart
    /\ ct_web[id].present
    /\ ct_web' = [ct_web EXCEPT ![id] = NoCt]
    /\ CtSave("web", ct_web', id, CtFields)
    /\ ct_restart' = TRUE
    /\ UNCHANGED <<ct_mem, ct_pc, ct_todo, ct_cur, ct_clock>>
    /\ UNCHANGED ct_pending

\* GET /api/ct/configs: the only place where the web API reloads the file.
CtReload ==
    /\ ~ct_restart
    /\ ct_web' = ct_file
    /\ ct_op' = NoCtOp
    /\ UNCHANGED <<ct_file, ct_mem, ct_pc, ct_todo, ct_cur, ct_clock, ct_restart>>
    /\ UNCHANGED ct_pending

\* _restart_copy_trader_if_running: the daemon is killed and a new one is
\* launched, with an empty manager that run() loads.
CtRestart ==
    /\ ct_restart
    /\ ct_restart' = FALSE
    /\ ct_mem' = NoCts
    /\ ct_pc' = "load"
    /\ ct_todo' = <<>>
    /\ ct_cur' = ""
    /\ ct_op' = NoCtOp
    /\ UNCHANGED <<ct_file, ct_web, ct_clock>>
    /\ UNCHANGED ct_pending

\* CopyTrader.run: load() and list_enabled() at the top of a cycle; with no
\* enabled config the daemon sleeps and comes back here.
CtLoad ==
    /\ ct_pc = "load"
    /\ ct_clock < MaxClock
    /\ ct_clock' = ct_clock + 1
    /\ ct_mem' = ct_file
    /\ ct_todo' = ct_list_enabled(ct_mem')
    /\ ct_pc' = IF ct_todo' = <<>> THEN "load" ELSE "process"
    /\ ct_op' = NoCtOp
    /\ UNCHANGED <<ct_file, ct_web, ct_cur, ct_restart>>
    /\ UNCHANGED ct_pending

\* update(config.id, last_check_timestamp=time.time()) in the daemon.
CtTouch(id) ==
    /\ ct_mem' = [ct_mem EXCEPT ![id].last_check_timestamp = ct_clock]
    /\ CtSave("daemon", ct_mem', id, {"last_check_timestamp"})

\* process_config up to its first await: a config never checked before is
\* stamped at once, any other goes on to fetch_activity.
CtProcess ==
    /\ ct_pc = "process"
    /\ ct_todo # <<>>
    /\ IF ct_mem[Head(ct_todo)].last_check_timestamp = None
       THEN /\ CtTouch(Head(ct_todo))
            /\ ct_todo' = Tail(ct_todo)
            /\ UNCHANGED <<ct_pc, ct_cur>>
       ELSE /\ ct_pc' = "fetch"
            /\ ct_cur' = Head(ct_todo)
            /\ ct_op' = NoCtOp
            /\ UNCHANGED <<ct_file, ct_mem, ct_todo>>
    /\ UNCHANGED <<ct_web, ct_clock, ct_restart>>
    /\ UNCHANGED ct_pending

\* process_config after its awaits (fetch_activity, the copy orders): the
\* timestamp is stamped on the config read at the top of the cycle.
CtFetched ==
    /\ ct_pc = "fetch"
    /\ CtTouch(ct_cur)
    /\ ct_todo' = Tail(ct_todo)
    /\ ct_pc' = "process"
    /\ ct_cur' = ""
    /\ UNCHANGED <<ct_web, ct_clock, ct_restart>>
    /\ UNCHANGED ct_pending

\* CopyTrader.run: the cycle is over, asyncio.sleep(check_interval).
CtSleep ==
    /\ ct_pc = "process"
    /\ ct_todo = <<>>
    /\ ct_pc' = "load"
    /\ ct_op' = NoCtOp
    /\ UNCHANGED <<ct_file, ct_web, ct_mem, ct_todo, ct_cur, ct_clock, ct_restart>>
    /\ UNCHANGED ct_pending

\* C11: a write to the config store changes nothing but what the call that
\* writes was asked to change: no write puts a stale value back over a
\* change another process made in between.
C11_NoStaleOverwrite ==
    [][\A id \in CtIds, f \in CtFields :
          ct_file'[id][f] # ct_file[id][f]
              => id = ct_op'.target /\ f \in ct_op'.fields]_vars

\* C25: the config store never holds two follow configs for one wallet
\* address.
C25_OneFollowPerWallet ==
    \A a, b \in CtIds :
        /\ ct_file[a].present
        /\ ct_file[b].present
        /\ lower(ct_file[a].wallet_address) = lower(ct_file[b].wallet_address)
        => a = b

(* ---------------------------------------------------------------------- *)
(* Shutdown of the two daemons on a stop signal: main(), handle_signal    *)
(* and the shape of the run() loop, which profit_monitor.py and           *)
(* copy_trader.py share (while self.running: one cycle over the configs,  *)
(* then asyncio.sleep(check_interval)).                                   *)
(* ---------------------------------------------------------------------- *)

Daemons == {"profit_monitor", "copy_trader"}

\* Enabled configs a cycle goes through.
MaxConfigs == 2

SdIdle ==
    /\ sd_phase = [d \in Daemons |-> "idle"]
    /\ sd_left = [d \in Daemons |-> 0]
    /\ sd_running = [d \in Daemons |-> TRUE]
    /\ sd_active = [d \in Daemons |-> 0]
    /\ sd_marker = [d \in Daemons |-> FALSE]
    /\ sd_cycles = [d \in Daemons |-> 0]

\* __main__ and main(): there are enabled configs, the handlers are
\* installed, the marker is set, run() is entered with self.running = True.
SdInit ==
    /\ sd_phase = [d \in Daemons |-> "loop"]
    /\ sd_left = [d \in Daemons |-> 0]
    /\ sd_running = [d \in Daemons |-> TRUE]
    /\ sd_active \in [Daemons -> 1..MaxConfigs]
    /\ sd_marker = [d \in Daemons |-> TRUE]
    /\ sd_cycles = [d \in Daemons |-> 0]

\* The loop condition: ProfitMonitor.run has
\* "while self.running and active_configs", CopyTrader.run "while self.running".
SdLoopCondition(d) ==
    sd_running[d] /\ (d = "profit_monitor" => sd_active[d] > 0)

\* run(): the loop condition holds and a cycle over the configs begins.
\* CopyTrader.run reloads its configs first (n of them are enabled) and
\* with none it sleeps and comes back to the while.
SdBeginCycle(d, n) ==
    /\ sd_phase[d] = "loop"
    /\ SdLoopCondition(d)
    /\ sd_cycles[d] < MaxCycles
    /\ d = "profit_monitor" => n = sd_active[d]
    /\ sd_cycles' = [sd_cycles EXCEPT ![d] = @ + 1]
    /\ sd_active' = [sd_active EXCEPT ![d] = n]
    /\ sd_phase' = [sd_phase EXCEPT ![d] = IF n = 0 THEN "loop" ELSE "cycle"]
    /\ sd_left' = [sd_left EXCEPT ![d] = n]
    /\ UNCHANGED <<sd_running, sd_marker>>

\* run(): one config of the cycle is processed (awaits inside); the
\* profit monitor drops a config whose position it sold.
SdProcessConfig(d, sold) ==
    /\ sd_phase[d] = "cycle"
    /\ sd_left[d] > 0
    /\ sold => d = "profit_monitor"
    /\ sd_left' = [sd_left EXCEPT ![d] = @ - 1]
    /\ sd_active' = [sd_active EXCEPT ![d] = IF sold THEN @ - 1 ELSE @]
    /\ UNCHANGED <<sd_phase, sd_running, sd_marker, sd_cycles>>

\* run(): the for loop is over, asyncio.sleep(check_interval), back to while.
SdEndCycle(d) ==
    /\ sd_phase[d] = "cycle"
    /\ sd_left[d] = 0
    /\ sd_phase' = [sd_phase EXCEPT ![d] = "loop"]
    /\ UNCHANGED <<sd_left, sd_running, sd_active, sd_marker, sd_cycles>>

\* run(): the loop condition is false, run() returns; main's finally clears
\* the marker.
SdLoopExit(d) ==
    /\ sd_phase[d] = "loop"
    /\ ~SdLoopCondition(d)
    /\ sd_phase' = [sd_phase EXCEPT ![d] = "exited"]
    /\ sd_marker' = [sd_marker EXCEPT ![d] = FALSE]
    /\ UNCHANGED <<sd_left, sd_running, sd_active, sd_cycles>>

\* SIGTERM or SIGINT: handle_signal calls sys.exit(0) wherever run() stands;
\* SystemExit unwinds through main's finally, which clears the marker.
\* self.running is not touched.
SdSignal(d) ==
    /\ sd_phase[d] \in {"loop", "cycle"}
    /\ sd_phase' = [sd_phase EXCEPT ![d] = "exited"]
    /\ sd_marker' = [sd_marker EXCEPT ![d] = FALSE]
    /\ UNCHANGED <<sd_left, sd_running, sd_active, sd_cycles>>

\* C12: a daemon that has exited left no config of a started polling cycle
\* unprocessed: on a stop signal the in-flight cycle is finished first.
C12_CycleFinishedBeforeExit ==
    \A d \in Daemons : sd_phase[d] = "exited" => sd_left[d] = 0

(* ---------------------------------------------------------------------- *)
(* The opportunity scan: OpportunityScanner.scan_with_stats and its       *)
(* stages (opportunity_scanner.py), the thresholds of scanner_config.py,  *)
(* and the auto-execution of cmd_scan (main.py).                          *)
(*                                                                        *)
(* Units.  Prices, risk and confidence scores, spreads and profits are    *)
(* integers in thousandths.  Liquidity is in thousandths of a dollar      *)
(* (shares * price in thousandths).  Volumes and amounts are dollars.     *)
(* ---------------------------------------------------------------------- *)

MarketIds == {"m1", "m2"}

MarketOrder == <<"m1", "m2">>

RiskModes == {"conservative", "moderate", "aggressive", "speculative"}

\* RISK_PROFILE_THRESHOLDS; uncertain_lo = uncertain_hi = None is
\* skip_uncertain_range = None.
RISK_PROFILE_THRESHOLDS ==
    [conservative |-> [min_liquidity |-> 1000000, max_spread_pct |-> 50,
                       min_profit_pct |-> 30, min_confidence_score |-> 600,
                       uncertain_lo |-> 400, uncertain_hi |-> 600,
                       filter_event_occurred |-> TRUE],
     moderate     |-> [min_liquidity |-> 500000, max_spread_pct |-> 100,
                       min_profit_pct |-> 20, min_confidence_score |-> 400,
                       uncertain_lo |-> 450, uncertain_hi |-> 550,
                       filter_event_occurred |-> TRUE],
     aggressive   |-> [min_liquidity |-> 200000, max_spread_pct |-> 150,
                       min_profit_pct |-> 10, min_confidence_score |-> 300,
                       uncertain_lo |-> None, uncertain_hi |-> None,
                       filter_event_occurred |-> FALSE],
     speculative  |-> [min_liquidity |-> 100000, max_spread_pct |-> 250,
                       min_profit_pct |-> 5, min_confidence_score |-> 200,
                       uncertain_lo |-> None, uncertain_hi |-> None,
                       filter_event_occurred |-> FALSE]]

\* analyze_liquidity looks at the first five levels of each side.
TopLevels == 5

TriageMinVolume == 1000

TriageMinConfidence == 500

TriageMinEdge == 50

Min2(a, b) == IF a <= b THEN a ELSE b

Level(price, size) == [price |-> price, size |-> size]

\* Order books of the token the scan would buy, as the client answers.
ScanBooks ==
    {[err |-> TRUE,  asks |-> <<>>, bids |-> <<>>],
     [err |-> FALSE, asks |-> <<Level(700, 100)>>, bids |-> <<Level(680, 100)>>],
     [err |-> FALSE, asks |-> <<Level(700, 500)>>, bids |-> <<Level(680, 500)>>],
     [err |-> FALSE, asks |-> <<Level(700, 2000)>>, bids |-> <<Level(680, 2000)>>],
     [err |-> FALSE,
      asks |-> <<Level(700, 250), Level(701, 250), Level(702, 250),
                 Level(703, 250), Level(704, 250), Level(705, 250)>>,
      bids |-> <<Level(600, 100)>>]}

RECURSIVE SumValue(_)
SumValue(levels) ==
    IF levels = <<>> THEN 0
    ELSE Head(levels).size * Head(levels).price + SumValue(Tail(levels))

FirstN(s, n) == SubSeq(s, 1, IF Len(s) < n THEN Len(s) ELSE n)

\* analyze_liquidity: "total_liquidity".
total_liquidity(book) ==
    IF book.err THEN 0
    ELSE SumValue(FirstN(book.asks, TopLevels))
         + SumValue(FirstN(book.bids, TopLevels))

\* analyze_liquidity: "spread_pct".
spread_pct(book) ==
    IF book.err THEN 1000
    ELSE LET best_ask == IF book.asks # <<>> THEN book.asks[1].price ELSE 1000
             best_bid == IF book.bids # <<>> THEN book.bids[1].price ELSE 0
         IN IF best_bid >= 100 /\ best_ask <= 900
            THEN IF best_ask + best_bid > 0
                 THEN ((best_ask - best_bid) * 2000) \div (best_ask + best_bid)
                 ELSE 1000
            ELSE IF best_ask < 1000 THEN Max2(0, 1000 - best_ask) ELSE 1000

\* calculate_expected_profit.
calculate_expected_profit(entry_price) ==
    IF entry_price > 0 THEN ((1000 - entry_price) * 1000) \div entry_price ELSE 0

\* A fetched market together with what the collaborators will say of it:
\* the book of the token to buy, the AI analysis, the web research status
\* and the score _calculate_enhanced_risk_score returns.
Markets ==
    [yes_price : {300, 500}, book : ScanBooks, volume_24h : {500, 5000},
     event_status : {"UNKNOWN", "OCCURRED"}, risk_score : {300, 700}]

\* get_portfolio_value and get_cash_balance, in dollars.
PortfolioValue == 100

CashBalance == 100

\* ScannerConfig: total_allocation_pct and max_position_pct, in percent.
total_allocation_pct == 75

max_position_pct == 10

\* What the AI analysis says of every candidate: BUY at 80% confidence and
\* a 10% edge, so filter_claude_skip never applies.
ClaudeConfidence == 800

ClaudeEdge == 100

\* What deep research can answer for the batch it is given.
DeepResults ==
    {[quality |-> "NONE", recommendation |-> "SKIP", final_conf |-> 500],
     [quality |-> "HIGH", recommendation |-> "SKIP", final_conf |-> 500],
     [quality |-> "HIGH", recommendation |-> "BUY_NO", final_conf |-> 800]}

NoOpp == [liquidity |-> 0, entry_price |-> 0, expected_profit_pct |-> 0,
          volume_24h |-> 0, event_status |-> "", risk_score |-> 0,
          claude_confidence |-> 0, claude_edge |-> 0,
          triage_status |-> "NONE", recommended_amount |-> 0,
          triage_reasons |-> <<>>, confidence_score |-> 0,
          correlation_risk |-> 0]

NoRan == [deep |-> {}, corr |-> {}, sized |-> {}, exec |-> {}]

ScanIdle ==
    /\ scan_cfg = [risk_mode |-> "moderate"]
    /\ scan_markets = [id \in MarketIds |-> None]
    /\ scan_stage = "idle"
    /\ scan_cands = <<>>
    /\ scan_opps = <<>>
    /\ scan_opp = [id \in MarketIds |-> NoOpp]
    /\ scan_failed = {}
    /\ scan_ran = NoRan

\* The state once fetch_expiring_markets has returned.
ScanInit ==
    /\ scan_cfg \in [risk_mode : RiskModes]
    /\ scan_markets \in [MarketIds -> Markets]
    /\ scan_stage = "fetched"
    /\ scan_cands = <<>>
    /\ scan_opps = <<>>
    /\ scan_opp = [id \in MarketIds |-> NoOpp]
    /\ scan_failed = {}
    /\ scan_ran = NoRan

Thresholds == RISK_PROFILE_THRESHOLDS[scan_cfg.risk_mode]

\* _pre_filter_markets: "_recommended_side" and "_entry_price" as set from
\* the two parsed prices.
select_side(yes_price, no_price) ==
    IF yes_price < 500
    THEN [recommended_side |-> "NO", entry_price |-> no_price]
    ELSE [recommended_side |-> "YES", entry_price |-> yes_price]

\* The entry price of a scanned market; the markets of a scan carry
\* complementary prices, no_price = 1 - yes_price.
entry_price(m) == select_side(m.yes_price, 1000 - m.yes_price).entry_price

\* The liquidity floor the pre-filter reads from scanner_config's own default.
ConfigMinLiquidity(th) == 500000

\* _pre_filter_markets: min_liquidity of the active risk mode.
PreFilterMinLiquidity(th) == th.min_liquidity

\* _pre_filter_markets: the body of the loop, TRUE when the market is kept.
pre_filter_keeps(m) ==
    /\ ~(Thresholds.uncertain_lo # None
          /\ Thresholds.uncertain_lo < m.yes_price
          /\ m.yes_price < Thresholds.uncertain_hi)
    /\ ~(total_liquidity(m.book) < PreFilterMinLiquidity(Thresholds))
    /\ ~(spread_pct(m.book) > Thresholds.max_spread_pct)
    /\ ~(calculate_expected_profit(entry_price(m)) < Thresholds.min_profit_pct)

\* _create_enhanced_opportunity: TRUE when it returns an opportunity.
create_keeps(m) ==
    /\ ~(Thresholds.filter_event_occurred /\ m.event_status = "OCCURRED")
    /\ ~(1000 - m.risk_score < Thresholds.min_confidence_score)

\* _create_enhanced_opportunity: the MarketOpportunity it builds.
create_opportunity(m) ==
    [liquidity |-> total_liquidity(m.book), entry_price |-> entry_price(m),
     expected_profit_pct |-> calculate_expected_profit(entry_price(m)),
     volume_24h |-> m.volume_24h, event_status |-> m.event_status,
     risk_score |-> m.risk_score, claude_confidence |-> ClaudeConfidence,
     claude_edge |-> ClaudeEdge, triage_status |-> "NONE",
     recommended_amount |-> 0, triage_reasons |-> <<>>,
     confidence_score |-> 1000 - m.risk_score, correlation_risk |-> 0]

\* The reasons of a triage that has no activity filter.
no_volume_reasons(opp) ==
    (IF opp.claude_confidence < TriageMinConfidence
     THEN << <<"Low", "confidence">> >> ELSE <<>>)
    \o (IF (IF opp.claude_edge < 0 THEN 0 - opp.claude_edge ELSE opp.claude_edge)
             < TriageMinEdge
        THEN << <<"Low", "edge">> >> ELSE <<>>)
    \o (IF opp.event_status = "OCCURRED"
        THEN << <<"Event", "already", "occurred">> >> ELSE <<>>)

\* _apply_triage_filters: "reasons", one entry per failed filter in the
\* order of the filters.  A reason is the sequence of the words of its
\* text, without the figures.
triage_reasons(opp) ==
    (IF opp.volume_24h < TriageMinVolume
     THEN << <<"Low", "volume">> >> ELSE <<>>)
    \o (IF opp.claude_confidence < TriageMinConfidence
        THEN << <<"Low", "confidence">> >> ELSE <<>>)
    \o (IF (IF opp.claude_edge < 0 THEN 0 - opp.claude_edge ELSE opp.claude_edge)
             < TriageMinEdge
        THEN << <<"Low", "edge">> >> ELSE <<>>)
    \o (IF opp.event_status = "OCCURRED"
        THEN << <<"Event", "already", "occurred">> >> ELSE <<>>)

\* _apply_triage_filters: "passed", no filter gave a reason.
triage_passed(opp) == Len(triage_reasons(opp)) = 0

\* The sort key (risk_score, -expected_profit_pct) of list.sort.
SortsBefore(a, b, opp) ==
    \/ opp[a].risk_score < opp[b].risk_score
    \/ /\ opp[a].risk_score = opp[b].risk_score
       /\ opp[a].expected_profit_pct > opp[b].expected_profit_pct

RECURSIVE InsertSorted(_, _, _)
InsertSorted(h, s, opp) ==
    IF s = <<>> THEN <<h>>
    ELSE IF SortsBefore(s[1], h, opp)
         THEN <<s[1]>> \o InsertSorted(h, Tail(s), opp)
         ELSE <<h>> \o s

\* list.sort(key=lambda x: (x.risk_score, -x.expected_profit_pct)), stable.
RECURSIVE SortOpps(_, _)
SortOpps(s, opp) ==
    IF s = <<>> THEN <<>>
    ELSE InsertSorted(Head(s), SortOpps(Tail(s), opp), opp)

\* scan_with_stats step 2: _pre_filter_markets.
ScanPreFilter ==
    /\ scan_stage = "fetched"
    /\ scan_cands' = SelectSeq(MarketOrder,
                               LAMBDA id : pre_filter_keeps(scan_markets[id]))
    /\ scan_failed' = scan_failed \cup
           {id \in MarketIds : ~pre_filter_keeps(scan_markets[id])}
    /\ scan_stage' = "candidates"
    /\ UNCHANGED <<scan_cfg, scan_markets, scan_opps, scan_opp, scan_ran>>

\* scan_with_stats steps 3 to 6: enrichment, research and AI analysis feed
\* _create_enhanced_opportunity, called for every candidate.
ScanScore ==
    /\ scan_stage = "candidates"
    /\ scan_opps' = SelectSeq(scan_cands,
                              LAMBDA id : create_keeps(scan_markets[id]))
    /\ scan_opp' = [id \in MarketIds |->
           IF id \in SeqRange(scan_cands) /\ create_keeps(scan_markets[id])
           THEN create_opportunity(scan_markets[id]) ELSE NoOpp]
    /\ scan_failed' = scan_failed \cup
           {id \in SeqRange(scan_cands) : ~create_keeps(scan_markets[id])}
    /\ scan_stage' = "scored"
    /\ UNCHANGED <<scan_cfg, scan_markets, scan_cands, scan_ran>>

\* scan_with_stats step 8: triage marks every opportunity PASSED or FILTERED.
ScanTriage ==
    /\ scan_stage = "scored"
    /\ scan_opp' = [id \in MarketIds |->
           IF id \in SeqRange(scan_opps)
           THEN IF triage_passed(scan_opp[id])
                THEN [scan_opp[id] EXCEPT !.triage_status = "PASSED",
                                          !.triage_reasons = <<>>]
                ELSE [scan_opp[id] EXCEPT
                        !.triage_status = "FILTERED",
                        !.triage_reasons = triage_reasons(scan_opp[id])]
           ELSE scan_opp[id]]
    /\ scan_failed' = scan_failed \cup
           {id \in SeqRange(scan_opps) : ~triage_passed(scan_opp[id])}
    /\ scan_stage' = "triaged"
    /\ UNCHANGED <<scan_cfg, scan_markets, scan_cands, scan_opps, scan_ran>>

\* triaged_opportunities of scan_with_stats.
triaged_opportunities ==
    SelectSeq(scan_opps, LAMBDA id : scan_opp[id].triage_status = "PASSED")

\* _apply_deep_research: the recalculated risk score.
research_risk_score(opp, res) ==
    IF res.recommendation = "SKIP" \/ opp.event_status = "OCCURRED"
    THEN Min2(1000, opp.risk_score + 200)
    ELSE IF res.recommendation \in {"BUY_YES", "BUY_NO"} /\ res.final_conf > 700
         THEN Max2(0, opp.risk_score - 100)
         ELSE opp.risk_score

\* _apply_deep_research on one opportunity.
apply_deep_research(opp, res) ==
    IF res.quality \in {"MEDIUM", "HIGH"}
    THEN [opp EXCEPT
            !.risk_score = research_risk_score(opp, res),
            !.confidence_score = 1000 - research_risk_score(opp, res),
            !.claude_confidence = res.final_conf]
    ELSE opp

\* scan_with_stats step 9 with enable_deep_research set: deep research of
\* the best triaged opportunities.
ScanDeepResearch ==
    /\ scan_stage = "triaged"
    /\ triaged_opportunities # <<>>
    /\ \E res \in DeepResults :
         LET top_for_research ==
                 SeqRange(SortOpps(triaged_opportunities, scan_opp))
         IN /\ scan_opp' = [id \in MarketIds |->
                   IF id \in top_for_research
                   THEN apply_deep_research(scan_opp[id], res)
                   ELSE scan_opp[id]]
            /\ scan_ran' = [scan_ran EXCEPT !.deep = top_for_research]
    /\ scan_stage' = "researched"
    /\ UNCHANGED <<scan_cfg, scan_markets, scan_cands, scan_opps, scan_failed>>

\* scan_with_stats step 9 skipped: enable_deep_research is off (the default)
\* or nothing passed triage.
ScanNoDeepResearch ==
    /\ scan_stage = "triaged"
    /\ scan_stage' = "researched"
    /\ UNCHANGED <<scan_cfg, scan_markets, scan_cands, scan_opps, scan_opp,
                   scan_failed, scan_ran>>

\* _adjust_for_correlations: every opportunity listed after one that names
\* it as related gets 0.05 more risk and 0.1 more correlation risk per such
\* predecessor; a list of fewer than two is returned as it is.
adjust_for_correlations(opps, opp, related) ==
    [id \in DOMAIN opp |->
        IF Len(opps) >= 2 /\ \E j \in 1..Len(opps) : opps[j] = id
        THEN LET j == CHOOSE k \in 1..Len(opps) : opps[k] = id
                 n == Cardinality({i \in 1..(j - 1) : <<opps[i], id>> \in related})
             IN [opp[id] EXCEPT
                   !.risk_score = Min2(1000, @ + 50 * n),
                   !.correlation_risk = Min2(1000, @ + 100 * n)]
        ELSE opp[id]]

\* scan_with_stats step 10: related is what enrichment found, a set of
\* pairs <<a, b>> where a names b among its related markets.
ScanCorrelate ==
    /\ scan_stage = "researched"
    /\ \E related \in {{}, {<<a, b>> \in MarketIds \X MarketIds : a # b}} :
         scan_opp' = adjust_for_correlations(scan_opps, scan_opp, related)
    /\ scan_ran' = [scan_ran EXCEPT !.corr = SeqRange(scan_opps)]
    /\ scan_stage' = "correlated"
    /\ UNCHANGED <<scan_cfg, scan_markets, scan_cands, scan_opps, scan_failed>>

\* scan_with_stats: allocated before the opportunity at index i is sized,
\* without fixed_amount.
RECURSIVE allocated_before(_)
allocated_before(i) ==
    IF i <= 1 THEN 0
    ELSE LET max_allocation == (PortfolioValue * total_allocation_pct) \div 100
             max_per_position == (CashBalance * max_position_pct) \div 100
             before == allocated_before(i - 1)
         IN IF before >= max_allocation THEN before
            ELSE before + Min2(max_per_position, max_allocation - before)

\* scan_with_stats: the final sort and position sizing; the sorted list is
\* the scan output.
ScanSortAndSize ==
    /\ scan_stage = "correlated"
    /\ LET sorted == SortOpps(scan_opps, scan_opp)
       IN /\ scan_opps' = sorted
          /\ scan_opp' = [id \in MarketIds |->
                IF \E j \in 1..Len(sorted) : sorted[j] = id
                THEN LET j == CHOOSE k \in 1..Len(sorted) : sorted[k] = id
                     IN [scan_opp[id] EXCEPT !.recommended_amount =
                            allocated_before(j + 1) - allocated_before(j)]
                ELSE scan_opp[id]]
          /\ scan_ran' = [scan_ran EXCEPT !.sized = SeqRange(sorted)]
    /\ scan_stage' = "sized"
    /\ UNCHANGED <<scan_cfg, scan_markets, scan_cands, scan_failed>>

\* cmd_scan with --auto-execute: every listed opportunity with a positive
\* recommended amount is executed.
ScanAutoExecute ==
    /\ scan_stage = "sized"
    /\ \E top \in 1..Cardinality(MarketIds) :
         LET top_n == Min2(top, Len(scan_opps))
         IN scan_ran' = [scan_ran EXCEPT !.exec =
               {scan_opps[i] : i \in {k \in 1..top_n :
                   scan_opp[scan_opps[k]].recommended_amount > 0}}]
    /\ scan_stage' = "done"
    /\ UNCHANGED <<scan_cfg, scan_markets, scan_cands, scan_opps, scan_opp,
                   scan_failed>>

\* cmd_scan without --auto-execute.
ScanShowOnly ==
    /\ scan_stage = "sized"
    /\ scan_stage' = "done"
    /\ UNCHANGED <<scan_cfg, scan_markets, scan_cands, scan_opps, scan_opp,
                   scan_failed, scan_ran>>

\* C14: within a scan no later stage (deep research, correlation
\* adjustment, position sizing, auto-execution) runs on a market that failed
\* an earlier one (pre-filter, scoring filters, triage).
C14_StrictPipeline ==
    \A st \in DOMAIN scan_ran : scan_ran[st] \cap scan_failed = {}

\* C20: in every risk mode, every opportunity of the scan output has a
\* total liquidity of at least the mode's min_liquidity.
C20_OutputLiquidity ==
    scan_stage \in {"sized", "done"} =>
        \A id \in SeqRange(scan_opps) :
            /\ scan_opp[id].liquidity = total_liquidity(scan_markets[id].book)
            /\ scan_opp[id].liquidity
                  >= RISK_PROFILE_THRESHOLDS[scan_cfg.risk_mode].min_liquidity

\* Two markets priced alike outside the uncertain range: the one with the
\* thinner book is dropped and the other is in the output.
C20_Witness ==
    /\ scan_stage = "done"
    /\ \E a, b \in MarketIds :
         /\ a \in SeqRange(scan_opps)
         /\ b \notin SeqRange(scan_opps)
         /\ scan_markets[b] = [scan_markets[a] EXCEPT !.book = scan_markets[b].book]
         /\ ~scan_markets[b].book.err
         /\ total_liquidity(scan_markets[b].book)
               < RISK_PROFILE_THRESHOLDS[scan_cfg.risk_mode].min_liquidity
         /\ spread_pct(scan_markets[b].book)
               <= RISK_PROFILE_THRESHOLDS[scan_cfg.risk_mode].max_spread_pct

\* A reason whose text has the word "volume" in it.
mentions_volume(reasons) ==
    \E i \in 1..Len(reasons) : \E w \in 1..Len(reasons[i]) :
        reasons[i][w] = "volume"

\* C21: once triage has run, every opportunity whose 24h volume is below
\* the triage floor is marked FILTERED and one of its reasons mentions the
\* volume, whatever its other signals are.
C21_LowVolumeFiltered ==
    scan_stage \in {"triaged", "researched", "correlated", "sized", "done"} =>
        \A id \in SeqRange(scan_opps) :
            scan_opp[id].volume_24h < TriageMinVolume =>
                /\ scan_opp[id].triage_status = "FILTERED"
                /\ mentions_volume(scan_opp[id].triage_reasons)

\* An opportunity with a volume of $500, the volume being the only filter
\* it fails, has been triaged.
C21_Witness ==
    /\ scan_stage = "triaged"
    /\ \E id \in SeqRange(scan_opps) :
         /\ scan_opp[id].volume_24h = 500
         /\ scan_opp[id].claude_confidence >= TriageMinConfidence
         /\ scan_opp[id].claude_edge >= TriageMinEdge
         /\ scan_opp[id].event_status # "OCCURRED"
         /\ scan_opp[id].triage_status = "FILTERED"
         /\ scan_opp[id].triage_reasons = << <<"Low", "volume">> >>

\* C24: every opportunity of the scan output has a risk score in [0, 1]
\* and a confidence score equal to 1 - risk score.
C24_ConfidenceIsOneMinusRisk ==
    scan_stage \in {"sized", "done"} =>
        \A id \in SeqRange(scan_opps) :
            /\ scan_opp[id].risk_score >= 0
            /\ scan_opp[id].risk_score <= 1000
            /\ scan_opp[id].confidence_score = 1000 - scan_opp[id].risk_score

(* ---------------------------------------------------------------------- *)
(* The shared rate limiter: RateLimiter and get_rate_limiter              *)
(* (api_cache.py).  Coroutines of one event loop call acquire(); the      *)
(* asyncio.Lock is held across the sleeps inside it.  Times are whole     *)
(* seconds.                                                               *)
(* ---------------------------------------------------------------------- *)

MaxTime == 100

\* The clock moves to the next wake-up or by this many seconds.
TickSeconds == 20

\* RateLimiter.requests_per_minute of the shared instance.
RequestsPerMinute == 2

\* acquire: the length of the rolling window, in seconds.
WindowSeconds == 60

\* acquire: "Extra buffer" added to the wait at the limit.
LimitBuffer == 1

\* RateLimiter.min_delay (get_rate_limiter leaves the default of 3.0).
MinDelay == 3

\* report_rate_limit_error: base wait without a retry-after value.
BaseWait == 30

\* report_rate_limit_error: the multiplier stops at 8.
MaxMultiplier == 8

\* report_rate_limit_error: "capped at 5 minutes".
CooldownCap == 300

\* The retry-after header values a RateLimitError can carry (None: absent).
RetryAfters == {None, 5, 60}

AiCallers == {"analyzer", "facts"}

NoBackoff == [n |-> 0, wait |-> 0, prev |-> 0]

RlIdle ==
    /\ rl_clock = 0
    /\ rl_times = <<>>
    /\ rl_until = 0
    /\ rl_consec = 0
    /\ rl_lock = "none"
    /\ rl_pc = [c \in AiCallers |-> "idle"]
    /\ rl_wake = [c \in AiCallers |-> 0]
    /\ rl_done = <<>>
    /\ rl_backoff = NoBackoff

\* RateLimiter.__init__, with the process clock at some positive time.
RlInit ==
    /\ rl_clock = 1
    /\ rl_times = <<>>
    /\ rl_until = 0
    /\ rl_consec = 0
    /\ rl_lock = "none"
    /\ rl_pc = [c \in AiCallers |-> "idle"]
    /\ rl_wake = [c \in AiCallers |-> 0]
    /\ rl_done = <<>>
    /\ rl_backoff = NoBackoff

RECURSIVE Pow2(_)
Pow2(n) == IF n <= 0 THEN 1 ELSE 2 * Pow2(n - 1)

\* report_rate_limit_error: wait_time for the n-th consecutive error.
cooldown_wait(n, retry_after) ==
    LET base_wait == IF retry_after # None /\ retry_after # 0
                     THEN retry_after ELSE BaseWait
        backoff_multiplier == Min2(Pow2(n - 1), MaxMultiplier)
    IN Min2(base_wait * backoff_multiplier, CooldownCap)

\* is_rate_limited.
is_rate_limited == rl_clock < rl_until

\* acquire: request_times without the entries a minute old or older.
Prune(times, now) == SelectSeq(times, LAMBDA t : now - t < WindowSeconds)

\* An acquire that never finds the window full.
NeverAtLimit(times) == FALSE

\* acquire: "Check if we're at the limit".
AtLimit(times) == Len(times) >= RequestsPerMinute

LastN(s, n) == IF Len(s) <= n THEN s ELSE SubSeq(s, Len(s) - n + 1, Len(s))

\* acquire: record the request; the lock is released on leaving the block.
Record(c, times) ==
    /\ rl_times' = Append(times, rl_clock)
    /\ rl_done' = LastN(Append(rl_done, rl_clock), RequestsPerMinute + 1)
    /\ rl_lock' = "none"
    /\ rl_pc' = [rl_pc EXCEPT ![c] = "acquired"]
    /\ UNCHANGED rl_wake

\* acquire: sleep inside the locked block until wake.
SleepIn(c, where, wake, times) ==
    /\ rl_times' = times
    /\ rl_lock' = c
    /\ rl_pc' = [rl_pc EXCEPT ![c] = where]
    /\ rl_wake' = [rl_wake EXCEPT ![c] = wake]
    /\ UNCHANGED rl_done

\* acquire: "Always wait minimum delay between requests".
MinDelayStep(c, times) ==
    IF times # <<>> /\ rl_clock - times[Len(times)] < MinDelay
    THEN SleepIn(c, "delay", times[Len(times)] + MinDelay, times)
    ELSE Record(c, times)

\* acquire: prune, then wait for the oldest request to leave the window.
LimitStep(c) ==
    LET times == Prune(rl_times, rl_clock)
        wait_time == WindowSeconds - (rl_clock - times[1]) + LimitBuffer
    IN IF AtLimit(times) /\ wait_time > 0
       THEN SleepIn(c, "limit", rl_clock + wait_time, times)
       ELSE MinDelayStep(c, times)

\* acquire up to its first sleep: take the lock, wait out a cooldown.
AcqEnter(c) ==
    /\ rl_pc[c] = "idle"
    /\ rl_lock = "none"
    /\ IF rl_clock < rl_until
       THEN SleepIn(c, "cooldown", rl_until, rl_times)
       ELSE LimitStep(c)
    /\ UNCHANGED <<rl_clock, rl_until, rl_consec, rl_backoff>>

\* acquire resumed after the cooldown sleep.
AcqAfterCooldown(c) ==
    /\ rl_pc[c] = "cooldown"
    /\ rl_clock >= rl_wake[c]
    /\ LimitStep(c)
    /\ UNCHANGED <<rl_clock, rl_until, rl_consec, rl_backoff>>

\* acquire resumed after the wait at the limit: "Clean up again".
AcqAfterLimit(c) ==
    /\ rl_pc[c] = "limit"
    /\ rl_clock >= rl_wake[c]
    /\ MinDelayStep(c, Prune(rl_times, rl_clock))
    /\ UNCHANGED <<rl_clock, rl_until, rl_consec, rl_backoff>>

\* acquire resumed after the minimum-delay sleep.
AcqAfterDelay(c) ==
    /\ rl_pc[c] = "delay"
    /\ rl_clock >= rl_wake[c]
    /\ Record(c, rl_times)
    /\ UNCHANGED <<rl_clock, rl_until, rl_consec, rl_backoff>>

\* report_rate_limit_error.
report_rate_limit_error(retry_after) ==
    LET n == rl_consec + 1
        wait_time == cooldown_wait(n, retry_after)
    IN /\ rl_consec' = n
       /\ rl_until' = rl_clock + wait_time
       /\ rl_backoff' = [n |-> n, wait |-> wait_time,
                         prev |-> IF rl_consec = 0 THEN 0 ELSE rl_backoff.wait]

\* report_success.
report_success ==
    /\ rl_consec' = 0
    /\ rl_backoff' = NoBackoff
    /\ UNCHANGED rl_until

\* The errors reported in a row: counted up to the point where the
\* multiplier and the cap no longer change anything.
MaxConsecutive == 6

\* A caller's request failed with RateLimitError and it reports the error.
RlReportError(retry_after) ==
    /\ rl_consec < MaxConsecutive
    /\ report_rate_limit_error(retry_after)
    /\ UNCHANGED <<rl_clock, rl_times, rl_lock, rl_pc, rl_wake, rl_done>>

\* A caller's request succeeded and it reports the success.
RlReportSuccess ==
    /\ report_success
    /\ UNCHANGED <<rl_clock, rl_times, rl_lock, rl_pc, rl_wake, rl_done>>

\* The request made after acquire() returned succeeds.
AcqCallSucceeded(c) ==
    /\ rl_pc[c] = "acquired"
    /\ rl_pc' = [rl_pc EXCEPT ![c] = "idle"]
    /\ report_success
    /\ UNCHANGED <<rl_clock, rl_times, rl_lock, rl_wake, rl_done>>

\* The request made after acquire() returned fails with RateLimitError
\* carrying no retry-after header.
AcqCallRateLimited(c) ==
    /\ rl_pc[c] = "acquired"
    /\ rl_consec < MaxConsecutive
    /\ rl_pc' = [rl_pc EXCEPT ![c] = "idle"]
    /\ report_rate_limit_error(None)
    /\ UNCHANGED <<rl_clock, rl_times, rl_lock, rl_wake, rl_done>>

\* Time passes: to the next pending wake-up, or by TickSeconds.
RlTick ==
    /\ \E t \in {rl_clock + TickSeconds}
                \cup {rl_wake[c] : c \in {x \in AiCallers :
                          rl_pc[x] \in {"cooldown", "limit", "delay"}}} :
         /\ t > rl_clock
         /\ t <= MaxTime
         /\ rl_clock' = t
    /\ UNCHANGED <<rl_times, rl_until, rl_consec, rl_lock, rl_pc, rl_wake,
                   rl_done, rl_backoff>>

\* C16: of two consecutive rate-limit errors with no success in between,
\* the later one sets a cooldown at least as long as the earlier one, and
\* none exceeds the cap.
C16_CooldownNonDecreasing ==
    /\ rl_backoff.wait >= rl_backoff.prev
    /\ rl_backoff.wait <= CooldownCap

C26_NoAcquireDuringCooldown ==
    [][\A c \in AiCallers :
          rl_pc[c] # "acquired" /\ rl_pc'[c] = "acquired"
              => ~(rl_clock' < rl_until')]_vars

(* ---------------------------------------------------------------------- *)
(* The AI callers and the credit guard: MarketAnalyzer.analyze_market     *)
(* (market_analyzer.py; DeepResearcher.research_market has the same       *)
(* shape), FactsGatherer.gather_facts (facts_gatherer.py),                *)
(* DeepMarketAnalyzer._analyze_with_context (deep_researcher.py) and      *)
(* APIGuard (api_guard.py) with its two routes in web_api.py.             *)
(* ---------------------------------------------------------------------- *)

\* APIGuard.AUTO_RESET_SECONDS.
AUTO_RESET_SECONDS == 300

\* max_retries of MarketAnalyzer (3) and FactsGatherer (4).
max_retries(c) == IF c = "analyzer" THEN 3 ELSE 4

\* What the collaborator can answer to a request.
AiOutcomes == {"ok", "rate_limit", "credit_exhausted"}

NoGuard == [credit_error |-> FALSE, credit_error_time |-> 0]

\* The requests followed in one run.
MaxRequests == 3

\* The callers are followed for this many seconds: long enough for a full
\* window to be waited out.
AiMaxTime == 62

NoCall == [n |-> 0, exhausted |-> FALSE]

AiIdle ==
    /\ ai_pc = [c \in AiCallers |-> "idle"]
    /\ ai_attempt = [c \in AiCallers |-> 0]
    /\ ai_wake = [c \in AiCallers |-> 0]
    /\ guard = NoGuard
    /\ ai_credit_at = None
    /\ ai_last_call = NoCall

\* APIGuard.is_blocked: the value it returns.
is_blocked ==
    /\ guard.credit_error
    /\ ~(rl_clock - guard.credit_error_time > AUTO_RESET_SECONDS)

\* The wait after a RateLimitError: (2 ** attempt) * 10 in analyze_market;
\* (2 ** attempt) * 15, or retry_after + 5 if that is longer, in gather_facts.
backoff_wait(c, attempt, retry_after) ==
    IF c = "analyzer" THEN Pow2(attempt) * 10
    ELSE IF retry_after # None /\ retry_after > Pow2(attempt) * 15
         THEN retry_after + 5
         ELSE Pow2(attempt) * 15

\* A request goes out to the collaborator; exhausted tells whether the
\* collaborator reported exhausted credit at most AUTO_RESET_SECONDS before
\* and the guard was not reset since.
SendRequest(c) ==
    /\ ai_last_call.n < MaxRequests
    /\ ai_last_call' =
           [n |-> ai_last_call.n + 1,
            exhausted |-> /\ ai_credit_at # None
                          /\ rl_clock - ai_credit_at <= AUTO_RESET_SECONDS]

\* analyze_market / gather_facts up to acquire(): on a cache miss the caller
\* asks is_rate_limited() once and returns at once if it says yes.
AiStart(c) ==
    /\ ai_pc[c] = "idle"
    /\ rl_pc[c] = "idle"
    /\ IF is_rate_limited
       THEN UNCHANGED <<ai_pc, ai_attempt>>
       ELSE /\ ai_pc' = [ai_pc EXCEPT ![c] = "acquire"]
            /\ ai_attempt' = [ai_attempt EXCEPT ![c] = 0]
    /\ UNCHANGED <<ai_wake, guard, ai_credit_at, ai_last_call, rl_vars>>

\* await self.rate_limiter.acquire(), up to its first sleep.
AiAcquire(c) ==
    /\ ai_pc[c] = "acquire"
    /\ AcqEnter(c)
    /\ UNCHANGED ai_vars

\* acquire() resumed after one of its sleeps.
AiAcquireResume(c) ==
    /\ \/ AcqAfterCooldown(c)
       \/ AcqAfterLimit(c)
       \/ AcqAfterDelay(c)
    /\ UNCHANGED ai_vars

\* acquire() returned: the request is sent.
AiAcquired(c) ==
    /\ ai_pc[c] = "acquire"
    /\ rl_pc[c] = "acquired"
    /\ rl_pc' = [rl_pc EXCEPT ![c] = "idle"]
    /\ ai_pc' = [ai_pc EXCEPT ![c] = "call"]
    /\ SendRequest(c)
    /\ UNCHANGED <<ai_attempt, ai_wake, guard, ai_credit_at, rl_clock, rl_times,
                   rl_until, rl_consec, rl_lock, rl_wake, rl_done, rl_backoff>>

\* The request succeeded: report_success and return.
AiCallOk(c) ==
    /\ ai_pc[c] = "call"
    /\ report_success
    /\ ai_pc' = [ai_pc EXCEPT ![c] = "idle"]
    /\ UNCHANGED <<ai_attempt, ai_wake, guard, ai_credit_at, ai_last_call,
                   rl_clock, rl_times, rl_lock, rl_pc, rl_wake, rl_done>>

\* except anthropic.RateLimitError: report it, sleep, continue the loop.
AiCallRateLimited(c, retry_after) ==
    /\ ai_pc[c] = "call"
    /\ rl_consec < MaxConsecutive
    /\ report_rate_limit_error(retry_after)
    /\ ai_pc' = [ai_pc EXCEPT ![c] = "backoff"]
    /\ ai_wake' = [ai_wake EXCEPT ![c] =
                      rl_clock + backoff_wait(c, ai_attempt[c], retry_after)]
    /\ UNCHANGED <<ai_attempt, guard, ai_credit_at, ai_last_call,
                   rl_clock, rl_times, rl_lock, rl_pc, rl_wake, rl_done>>

\* The collaborator answers that the credit balance is too low: a 400,
\* caught by except anthropic.APIStatusError (or except Exception), printed,
\* and the caller returns.
AiCallCreditExhausted(c) ==
    /\ ai_pc[c] = "call"
    /\ ai_credit_at' = rl_clock
    /\ ai_pc' = [ai_pc EXCEPT ![c] = "idle"]
    /\ UNCHANGED <<ai_attempt, ai_wake, guard, ai_last_call, rl_vars>>

\* The backoff sleep is over: the next attempt, if any is left.
\* analyze_market acquires again; gather_facts, which acquired before its
\* loop, sends the request again directly.
AiBackoffDone(c) ==
    /\ ai_pc[c] = "backoff"
    /\ rl_clock >= ai_wake[c]
    /\ ai_attempt' = [ai_attempt EXCEPT ![c] = @ + 1]
    /\ IF ai_attempt[c] + 1 >= max_retries(c)
       THEN /\ ai_pc' = [ai_pc EXCEPT ![c] = "idle"]
            /\ UNCHANGED ai_last_call
       ELSE IF c = "analyzer"
            THEN /\ ai_pc' = [ai_pc EXCEPT ![c] = "acquire"]
                 /\ UNCHANGED ai_last_call
            ELSE /\ ai_pc' = [ai_pc EXCEPT ![c] = "call"]
                 /\ SendRequest(c)
    /\ UNCHANGED <<ai_wake, guard, ai_credit_at, rl_vars>>

\* _analyze_with_context: the request is sent without asking the rate
\* limiter or the guard; any exception gives the research-based fallback.
AiAnalyzeWithContext(outcome) ==
    /\ SendRequest("context")
    /\ ai_credit_at' = IF outcome = "credit_exhausted" THEN rl_clock
                       ELSE ai_credit_at
    /\ UNCHANGED <<ai_pc, ai_attempt, ai_wake, guard, rl_vars>>

\* GET /api/guard/status: is_blocked, with its auto-reset.
GuardStatus ==
    /\ guard' = IF guard.credit_error
                   /\ rl_clock - guard.credit_error_time > AUTO_RESET_SECONDS
                THEN NoGuard ELSE guard
    /\ UNCHANGED <<ai_pc, ai_attempt, ai_wake, ai_credit_at, ai_last_call,
                   rl_vars>>

\* POST /api/guard/reset: APIGuard.reset, the manual clearing.
GuardReset ==
    /\ guard' = NoGuard
    /\ ai_credit_at' = None
    /\ UNCHANGED <<ai_pc, ai_attempt, ai_wake, ai_last_call, rl_vars>>

\* Time passes: to the next pending wake-up, or by TickSeconds.
AiTick ==
    /\ \E t \in {rl_clock + TickSeconds}
                \cup {rl_wake[c] : c \in {x \in AiCallers :
                          rl_pc[x] \in {"cooldown", "limit", "delay"}}}
                \cup {ai_wake[c] : c \in {x \in AiCallers :
                          ai_pc[x] = "backoff"}} :
         /\ t > rl_clock
         /\ t <= AiMaxTime
         /\ rl_clock' = t
    /\ UNCHANGED <<rl_times, rl_until, rl_consec, rl_lock, rl_pc, rl_wake,
                   rl_done, rl_backoff, ai_vars>>

\* C15: no request is sent to the collaborator within AUTO_RESET_SECONDS of
\* its reporting exhausted credit, unless the guard was reset in between.
C15_NoCallWhileCreditExhausted ==
    ~ai_last_call.exhausted

\* C17: no caller is inside acquire() waiting for the cooldown to end.
C17_FailFastWhenCoolingDown ==
    \A c \in AiCallers : rl_pc[c] # "cooldown"

\* C27: every request sent to the collaborator is preceded by its own
\* acquisition from the shared rate limiter: a request goes out only in the
\* step in which its caller leaves an acquire() that has returned.
C27_EveryRequestAcquires ==
    [][ai_last_call'.n > ai_last_call.n
          => \E c \in AiCallers :
                rl_pc[c] = "acquired" /\ rl_pc'[c] = "idle"]_vars

(* ---------------------------------------------------------------------- *)
(* The API cache: APICache and get_cache (api_cache.py).  Every process   *)
(* of the program (a CLI run, the web server) builds its own APICache     *)
(* over the same directory src/.api_cache.  Disk writes succeed.          *)
(* ---------------------------------------------------------------------- *)

MaxCacheTime == 3

\* The calls of set followed in one run.
MaxSets == 2

CacheProcs == {"cli", "web"}

CacheTypes == {"analysis", "facts"}

Identifiers == {"q1"}

\* The first 16 hex digits of the identifier's md5.
md5_16(identifier) == IF identifier = "q1" THEN "5a1fd0c4b4f3e6a1" ELSE "0"

\* _get_cache_key: f"{cache_type}_{hash_str}", kept as the pair.
get_cache_key(cache_type, identifier) == <<cache_type, md5_16(identifier)>>

CacheKeys == {get_cache_key(t, i) : t \in CacheTypes, i \in Identifiers}

\* JSON documents the callers store.
CacheData == {"d1", "d2"}

\* ttl_seconds of set; None takes default_ttl.
CacheTtls == {None, 1}

\* APICache.default_ttl, in ticks.
default_ttl == 2

\* Python None where a JSON document is expected: data not loaded yet, no
\* file, a miss.
NoData == "None"

\* No CacheEntry under the key, or nothing stored under it.
NoEntry == [data |-> NoData, expires_at |-> None]

CacheEntry(data, expires_at) == [data |-> data, expires_at |-> expires_at]

\* Nothing got yet.  fresh: a value was stored under the key and its TTL had
\* not run out at the time of the get; stale: one was stored and it had.
NoGet == [result |-> NoData, stored |-> NoData, fresh |-> FALSE,
          stale |-> FALSE, sets |-> 0]

CacheIdle ==
    /\ cache_clock = 0
    /\ cache_up = [p \in CacheProcs |-> FALSE]
    /\ cache_mem = [p \in CacheProcs |-> [k \in CacheKeys |-> NoEntry]]
    /\ cache_files = [k \in CacheKeys |-> NoData]
    /\ cache_index = [k \in CacheKeys |-> None]
    /\ cache_stored = [k \in CacheKeys |-> NoEntry]
    /\ cache_got = NoGet

\* An empty cache directory and no process running yet.
CacheInit == CacheIdle

\* _save_cache_index: index.json rewritten from this process's memory.
save_cache_index(mem) == [k \in CacheKeys |-> mem[k].expires_at]

\* APICache.__init__ / _load_cache_index at process start: the unexpired
\* lines of index.json, data to be loaded lazily.
CacheStart(p) ==
    /\ ~cache_up[p]
    /\ cache_up' = [cache_up EXCEPT ![p] = TRUE]
    /\ cache_mem' = [cache_mem EXCEPT ![p] = [k \in CacheKeys |->
           IF cache_index[k] # None /\ cache_index[k] > cache_clock
           THEN CacheEntry(NoData, cache_index[k]) ELSE NoEntry]]
    /\ UNCHANGED <<cache_clock, cache_files, cache_index, cache_stored,
                   cache_got>>

\* The process ends; its memory cache is gone.
CacheExit(p) ==
    /\ cache_up[p]
    /\ cache_up' = [cache_up EXCEPT ![p] = FALSE]
    /\ cache_mem' = [cache_mem EXCEPT ![p] = [k \in CacheKeys |-> NoEntry]]
    /\ UNCHANGED <<cache_clock, cache_files, cache_index, cache_stored,
                   cache_got>>

\* APICache.set.
CacheSet(p, cache_type, identifier, data, ttl_seconds) ==
    /\ cache_up[p]
    /\ LET ttl == IF ttl_seconds = None THEN default_ttl ELSE ttl_seconds
           key == get_cache_key(cache_type, identifier)
           entry == CacheEntry(data, cache_clock + ttl)
           mem == [cache_mem[p] EXCEPT ![key] = entry]
       IN /\ cache_mem' = [cache_mem EXCEPT ![p] = mem]
          /\ cache_files' = [cache_files EXCEPT ![key] = data]
          /\ cache_index' = save_cache_index(mem)
          /\ cache_stored' = [cache_stored EXCEPT ![key] = entry]
    /\ cache_got.sets < MaxSets
    /\ cache_got' = [cache_got EXCEPT !.sets = @ + 1]
    /\ UNCHANGED <<cache_clock, cache_up>>

\* APICache.get, with _remove for an expired entry.
CacheGet(p, cache_type, identifier) ==
    /\ cache_up[p]
    /\ LET key == get_cache_key(cache_type, identifier)
           entry == cache_mem[p][key]
           removed == [cache_mem[p] EXCEPT ![key] = NoEntry]
           stored == cache_stored[key]
           Got(result) ==
               cache_got' = [result |-> result, stored |-> stored.data,
                             fresh |-> /\ stored # NoEntry
                                       /\ cache_clock < stored.expires_at,
                             stale |-> /\ stored # NoEntry
                                       /\ cache_clock >= stored.expires_at,
                             sets |-> cache_got.sets]
       IN IF entry = NoEntry
          THEN /\ Got(NoData)
               /\ UNCHANGED <<cache_mem, cache_files, cache_index>>
          ELSE IF entry.expires_at > cache_clock
               THEN LET loaded == IF entry.data = NoData THEN cache_files[key]
                                  ELSE entry.data
                    IN /\ Got(loaded)
                       /\ cache_mem' = [cache_mem EXCEPT ![p][key].data = loaded]
                       /\ UNCHANGED <<cache_files, cache_index>>
               ELSE /\ Got(NoData)
                    /\ cache_mem' = [cache_mem EXCEPT ![p] = removed]
                    /\ cache_files' = [cache_files EXCEPT ![key] = NoData]
                    /\ cache_index' = save_cache_index(removed)
    /\ UNCHANGED <<cache_clock, cache_up, cache_stored>>

CacheTick ==
    /\ cache_clock < MaxCacheTime
    /\ cache_clock' = cache_clock + 1
    /\ UNCHANGED <<cache_up, cache_mem, cache_files, cache_index,
                   cache_stored, cache_got>>

\* C19: a get of a key under which a value was stored returns that value
\* if the stored value's TTL has not run out, and a miss if it has.
C19_RoundTrip ==
    /\ cache_got.fresh => cache_got.result = cache_got.stored
    /\ cache_got.stale => cache_got.result = NoData

(* ---------------------------------------------------------------------- *)
(* Side selection of _pre_filter_markets (opportunity_scanner.py) as a    *)
(* function of the prices the market carries                              *)
(* ---------------------------------------------------------------------- *)

\* Prices an outcome can be quoted at.
SidePrices == {0, 100, 200, 300, 400, 450, 500, 550, 600, 700, 800, 900, 1000}

\* "outcomePrices": a list that can miss one price or both.
OutcomePrices ==
    {<<>>} \cup {<<y>> : y \in SidePrices}
           \cup {<<y, n>> : y \in SidePrices, n \in SidePrices}

\* yes_price and no_price default to 0.5 when the list is too short.
parsed_yes_price(prices) == IF Len(prices) > 0 THEN prices[1] ELSE 500

parsed_no_price(prices) == IF Len(prices) > 1 THEN prices[2] ELSE 500

NoSide == [recommended_side |-> "", entry_price |-> None]

SideIdle ==
    /\ side_prices = <<>>
    /\ side_pick = [recommended_side |-> "idle", entry_price |-> None]

SideInit ==
    /\ side_prices \in OutcomePrices
    /\ side_pick = NoSide

\* _pre_filter_markets: the side of one market is determined.
SidePick ==
    /\ side_pick = NoSide
    /\ side_pick' = select_side(parsed_yes_price(side_prices),
                                parsed_no_price(side_prices))
    /\ UNCHANGED side_prices

\* C22: the side picked is the outcome priced closer to 1.0 of the two,
\* and the entry price is that outcome's price.
C22_SideCloserToOne ==
    LET yes_price == parsed_yes_price(side_prices)
        no_price == parsed_no_price(side_prices)
    IN /\ side_pick.recommended_side = "YES" =>
            side_pick.entry_price = yes_price /\ yes_price >= no_price
       /\ side_pick.recommended_side = "NO" =>
            side_pick.entry_price = no_price /\ no_price >= yes_price

(* ---------------------------------------------------------------------- *)
(* _adjust_for_correlations (opportunity_scanner.py) on a list of up to   *)
(* three opportunities                                                    *)
(* ---------------------------------------------------------------------- *)

CorrIds == {"o1", "o2", "o3"}

\* The order of the opportunities list.
CorrOrder == <<"o1", "o2", "o3">>

\* Scores an opportunity can come with, some of them within one step of the
\* cap.
CorrScores == [risk_score : {300, 980}, correlation_risk : {0, 950}]

CorrIdle ==
    /\ corr_opps = <<>>
    /\ corr_opp = [id \in CorrIds |-> None]
    /\ corr_related = {}
    /\ corr_before = corr_opp
    /\ corr_done = FALSE

CorrInit ==
    /\ corr_opps \in {SubSeq(CorrOrder, 1, n) : n \in 1..Len(CorrOrder)}
    /\ corr_opp \in [CorrIds -> CorrScores]
    /\ corr_related \in SUBSET {<<a, b>> \in CorrIds \X CorrIds : a # b}
    /\ corr_before = corr_opp
    /\ corr_done = FALSE

\* scan_with_stats step 10 on this list.
CorrAdjust ==
    /\ ~corr_done
    /\ corr_done' = TRUE
    /\ corr_opp' = adjust_for_correlations(corr_opps, corr_opp, corr_related)
    /\ UNCHANGED <<corr_opps, corr_related, corr_before>>

\* An opportunity ranked before position j is related to the one at j: one
\* of the two has the other in its related markets.
related_to_earlier(j) ==
    \E i \in 1..(j - 1) :
        \/ <<corr_opps[i], corr_opps[j]>> \in corr_related
        \/ <<corr_opps[j], corr_opps[i]>> \in corr_related

\* C23: after the correlation adjustment every opportunity that is related
\* to an earlier-ranked one has 0.05 more risk and 0.10 more correlation
\* risk, both capped at 1.0, and every other opportunity is unchanged: one
\* penalty step at most, however many opportunities it is related to.
C23_OnePenaltyStep ==
    corr_done =>
        \A j \in 1..Len(corr_opps) :
            LET id == corr_opps[j]
            IN IF related_to_earlier(j)
               THEN /\ corr_opp[id].risk_score
                          = Min2(1000, corr_before[id].risk_score + 50)
                    /\ corr_opp[id].correlation_risk
                          = Min2(1000, corr_before[id].correlation_risk + 100)
               ELSE corr_opp[id] = corr_before[id]

(* ---------------------------------------------------------------------- *)
(* The copy-trader daemon and the trades it copies: CopyTrader.__init__,  *)
(* process_config, copy_buy_trade and main (copy_trader.py), for one      *)
(* enabled follow.  Every upstream trade is on an asset of its own, so    *)
(* the consolidation of fills leaves one copy trade per upstream trade.   *)
(* ---------------------------------------------------------------------- *)

MaxCopyTime == 3

\* Copy orders per upstream trade that are counted.
MaxOrders == 2

TradeIds == {"t1", "t2"}

CopyIdle ==
    /\ cpy_clock = 0
    /\ cpy_trades = [t \in TradeIds |-> None]
    /\ cpy_last_check = None
    /\ cpy_copied = {}
    /\ cpy_activities = {}
    /\ cpy_pc = "down"
    /\ cpy_orders = [t \in TradeIds |-> 0]

\* The follow has just been added and the daemon launched.
CopyInit ==
    /\ cpy_clock = 1
    /\ cpy_trades = [t \in TradeIds |-> None]
    /\ cpy_last_check = None
    /\ cpy_copied = {}
    /\ cpy_activities = {}
    /\ cpy_pc = "idle"
    /\ cpy_orders = [t \in TradeIds |-> 0]

\* The data API's answer to fetch_activity: the trades from start on.
activity_since(start) ==
    {t \in TradeIds : cpy_trades[t] # None /\ cpy_trades[t] >= start}

\* update(config.id, last_check_timestamp=time.time()).
CpyStampNow == cpy_last_check' = cpy_clock

\* The followed wallet trades.
CpyUpstreamTrade(t) ==
    /\ cpy_trades[t] = None
    /\ cpy_trades' = [cpy_trades EXCEPT ![t] = cpy_clock]
    /\ UNCHANGED <<cpy_clock, cpy_last_check, cpy_copied, cpy_activities,
                   cpy_pc, cpy_orders>>

CpyTick ==
    /\ cpy_clock < MaxCopyTime
    /\ cpy_clock' = cpy_clock + 1
    /\ UNCHANGED <<cpy_trades, cpy_last_check, cpy_copied, cpy_activities,
                   cpy_pc, cpy_orders>>

\* process_config up to the return of fetch_activity.  A follow never
\* checked before is stamped and left for the next cycle; a failed fetch
\* gives the empty list.
CpyFetch(ok) ==
    /\ cpy_pc = "idle"
    /\ IF cpy_last_check = None
       THEN /\ CpyStampNow
            /\ UNCHANGED <<cpy_activities, cpy_pc>>
       ELSE /\ cpy_activities' = IF ok THEN activity_since(cpy_last_check)
                                 ELSE {}
            /\ cpy_pc' = "fetched"
            /\ UNCHANGED cpy_last_check
    /\ UNCHANGED <<cpy_clock, cpy_trades, cpy_copied, cpy_orders>>

\* process_config from the fetched activities to the last copy order:
\* trades whose id is in copied_trade_ids are dropped, the others are
\* remembered and copied; placed are those whose order went through.
CpyCopy(placed) ==
    /\ cpy_pc = "fetched"
    /\ LET new_trades == cpy_activities \ cpy_copied
       IN /\ placed \subseteq new_trades
          /\ \A t \in placed : cpy_orders[t] < MaxOrders
          /\ cpy_copied' = cpy_copied \cup new_trades
          /\ cpy_orders' = [t \in TradeIds |->
                IF t \in placed THEN cpy_orders[t] + 1 ELSE cpy_orders[t]]
          /\ IF new_trades = {}
             THEN CpyStampNow /\ cpy_pc' = "idle"
             ELSE cpy_pc' = "ordered" /\ UNCHANGED cpy_last_check
    /\ cpy_activities' = {}
    /\ UNCHANGED <<cpy_clock, cpy_trades>>

\* process_config: "Update last check timestamp" after the copies.
CpyStamp ==
    /\ cpy_pc = "ordered"
    /\ CpyStampNow
    /\ cpy_pc' = "idle"
    /\ UNCHANGED <<cpy_clock, cpy_trades, cpy_copied, cpy_activities, cpy_orders>>

\* The daemon is stopped or killed (SIGTERM: handle_signal's sys.exit;
\* SIGKILL; the restart the web API does after a config change) wherever
\* it stands.
CpyKill ==
    /\ cpy_pc # "down"
    /\ cpy_pc' = "down"
    /\ cpy_copied' = {}
    /\ cpy_activities' = {}
    /\ UNCHANGED <<cpy_clock, cpy_trades, cpy_last_check, cpy_orders>>

\* The daemon is started again: CopyTrader() with an empty
\* copied_trade_ids.
CpyStart ==
    /\ cpy_pc = "down"
    /\ cpy_pc' = "idle"
    /\ cpy_copied' = {}
    /\ UNCHANGED <<cpy_clock, cpy_trades, cpy_last_check, cpy_activities,
                   cpy_orders>>

\* C28: no upstream trade of the followed wallet has more than one copy
\* order placed for it.
C28_AtMostOneCopy ==
    \A t \in TradeIds : cpy_orders[t] <= 1

(* ---------------------------------------------------------------------- *)
(* Specifications                                                         *)
(* ---------------------------------------------------------------------- *)

InitCheck ==
    /\ CpInit
    /\ MonIdle
    /\ DaemonIdle
    /\ StoreIdle
    /\ CtIdle
    /\ SdIdle
    /\ ScanIdle
    /\ RlIdle
    /\ AiIdle
    /\ CacheIdle
    /\ SideIdle
    /\ CorrIdle
    /\ CopyIdle

NextCheck ==
    /\ CheckPosition
    /\ UNCHANGED <<mon_vars, daemon_vars, store_vars, ct_vars, sd_vars,
                   scan_vars, rl_vars, ai_vars, cache_vars, side_vars,
                   corr_vars, copy_vars>>

SpecCheck == InitCheck /\ [][NextCheck]_vars

InitMon ==
    /\ MonInit
    /\ CpIdle
    /\ DaemonIdle
    /\ StoreIdle
    /\ CtIdle
    /\ SdIdle
    /\ ScanIdle
    /\ RlIdle
    /\ AiIdle
    /\ CacheIdle
    /\ SideIdle
    /\ CorrIdle
    /\ CopyIdle

NextMon ==
    /\ \/ Cleanup
       \/ BeginCycle
       \/ LoopExit
       \/ Check
       \/ HandleTakeProfit
       \/ HandleStopLoss
       \/ HandleAlreadySold
       \/ HandleHold
       \/ Requery
       \/ Retry
       \/ EndCycle
       \/ UpstreamChange
    /\ UNCHANGED <<cp_vars, daemon_vars, store_vars, ct_vars, sd_vars,
                   scan_vars, rl_vars, ai_vars, cache_vars, side_vars,
                   corr_vars, copy_vars>>

SpecMon == InitMon /\ [][NextMon]_vars

InitDaemon ==
    /\ DaemonInit
    /\ CpIdle
    /\ MonIdle
    /\ StoreIdle
    /\ CtIdle
    /\ SdIdle
    /\ ScanIdle
    /\ RlIdle
    /\ AiIdle
    /\ CacheIdle
    /\ SideIdle
    /\ CorrIdle
    /\ CopyIdle

NextDaemon ==
    /\ \/ \E c \in Callers :
            \/ StartCheck(c)
            \/ StartSpawn(c)
            \/ Verify(c)
            \/ StopBegin(c)
            \/ StopFinish(c)
            \/ RestartCheck(c)
            \/ RestartStop(c)
            \/ RestartWait(c)
            \/ RestartSpawn(c)
       \/ \E p \in Pids :
            \/ Register(p)
            \/ ExitOnSignal(p)
            \/ ExitOnError(p)
    /\ UNCHANGED <<cp_vars, mon_vars, store_vars, ct_vars, sd_vars,
                   scan_vars, rl_vars, ai_vars, cache_vars, side_vars,
                   corr_vars, copy_vars>>

SpecDaemon == InitDaemon /\ [][NextDaemon]_vars

InitStore ==
    /\ StoreInit
    /\ CpIdle
    /\ MonIdle
    /\ DaemonIdle
    /\ CtIdle
    /\ SdIdle
    /\ ScanIdle
    /\ RlIdle
    /\ AiIdle
    /\ CacheIdle
    /\ SideIdle
    /\ CorrIdle
    /\ CopyIdle

NextStore ==
    /\ \E c \in Callers :
          \/ \E token_id \in Tokens, tp_pct \in TpPcts :
                \/ PmAdd(c, token_id, tp_pct)
                \/ AutoRegister(c, token_id, tp_pct)
          \/ \E config_id \in StoreIds :
                \/ \E kw \in UpdateKwargs : PmEdit(c, config_id, kw)
                \/ PmRemove(c, config_id)
          \/ AddSelect(c)
          \/ AddInsert(c)
          \/ UpdateSelect(c)
          \/ UpdateWrite(c)
    /\ UNCHANGED <<cp_vars, run_vars, daemon_vars, ct_vars, sd_vars,
                   scan_vars, rl_vars, ai_vars, cache_vars, side_vars,
                   corr_vars, copy_vars>>

SpecStore == InitStore /\ [][NextStore]_vars

InitCt ==
    /\ CtInit
    /\ CpIdle
    /\ MonIdle
    /\ DaemonIdle
    /\ StoreIdle
    /\ SdIdle
    /\ ScanIdle
    /\ RlIdle
    /\ AiIdle
    /\ CacheIdle
    /\ SideIdle
    /\ CorrIdle
    /\ CopyIdle

NextCt ==
    /\ \/ \E id \in CtIds :
            \/ \E w \in Wallets, a \in MaxAmounts : CtAdd(id, w, a)
            \/ \E a \in MaxAmounts : CtSetMaxAmount(id, a)
            \/ \E e \in BOOLEAN : CtSetEnabled(id, e)
            \/ CtDelete(id)
       \/ CtReload
       \/ CtRestart
       \/ CtLoad
       \/ CtProcess
       \/ CtFetched
       \/ CtSleep
    /\ UNCHANGED <<cp_vars, mon_vars, daemon_vars, store_vars, sd_vars,
                   scan_vars, rl_vars, ai_vars, cache_vars, side_vars,
                   corr_vars, copy_vars>>

SpecCt == InitCt /\ [][NextCt]_vars

InitShutdown ==
    /\ SdInit
    /\ CpIdle
    /\ MonIdle
    /\ DaemonIdle
    /\ StoreIdle
    /\ CtIdle
    /\ ScanIdle
    /\ RlIdle
    /\ AiIdle
    /\ CacheIdle
    /\ SideIdle
    /\ CorrIdle
    /\ CopyIdle

NextShutdown ==
    /\ \E d \in Daemons :
          \/ \E n \in 0..MaxConfigs : SdBeginCycle(d, n)
          \/ \E sold \in BOOLEAN : SdProcessConfig(d, sold)
          \/ SdEndCycle(d)
          \/ SdLoopExit(d)
          \/ SdSignal(d)
    /\ UNCHANGED <<cp_vars, mon_vars, daemon_vars, store_vars, ct_vars,
                   scan_vars, rl_vars, ai_vars, cache_vars, side_vars,
                   corr_vars, copy_vars>>

SpecShutdown == InitShutdown /\ [][NextShutdown]_vars

InitScan ==
    /\ ScanInit
    /\ CpIdle
    /\ MonIdle
    /\ DaemonIdle
    /\ StoreIdle
    /\ CtIdle
    /\ SdIdle
    /\ RlIdle
    /\ AiIdle
    /\ CacheIdle
    /\ SideIdle
    /\ CorrIdle
    /\ CopyIdle

NextScan ==
    /\ \/ ScanPreFilter
       \/ ScanScore
       \/ ScanTriage
       \/ ScanDeepResearch
       \/ ScanNoDeepResearch
       \/ ScanCorrelate
       \/ ScanSortAndSize
       \/ ScanAutoExecute
       \/ ScanShowOnly
    /\ UNCHANGED <<cp_vars, mon_vars, daemon_vars, store_vars, ct_vars,
                   sd_vars, rl_vars, ai_vars, cache_vars, side_vars,
                   corr_vars, copy_vars>>

SpecScan == InitScan /\ [][NextScan]_vars

InitRl ==
    /\ RlInit
    /\ CpIdle
    /\ MonIdle
    /\ DaemonIdle
    /\ StoreIdle
    /\ CtIdle
    /\ SdIdle
    /\ ScanIdle
    /\ AiIdle
    /\ CacheIdle
    /\ SideIdle
    /\ CorrIdle
    /\ CopyIdle

NextRl ==
    /\ \/ \E c \in AiCallers :
            \/ AcqEnter(c)
            \/ AcqAfterCooldown(c)
            \/ AcqAfterLimit(c)
            \/ AcqAfterDelay(c)
            \/ AcqCallSucceeded(c)
            \/ AcqCallRateLimited(c)
       \/ RlTick
    /\ UNCHANGED <<cp_vars, mon_vars, daemon_vars, store_vars, ct_vars,
                   sd_vars, scan_vars, ai_vars, cache_vars, side_vars,
                   corr_vars, copy_vars>>

SpecRl == InitRl /\ [][NextRl]_vars

InitBackoff ==
    /\ RlInit
    /\ CpIdle
    /\ MonIdle
    /\ DaemonIdle
    /\ StoreIdle
    /\ CtIdle
    /\ SdIdle
    /\ ScanIdle
    /\ AiIdle
    /\ CacheIdle
    /\ SideIdle
    /\ CorrIdle
    /\ CopyIdle

NextBackoff ==
    /\ \/ \E retry_after \in RetryAfters : RlReportError(retry_after)
       \/ RlReportSuccess
       \/ RlTick
    /\ UNCHANGED <<cp_vars, mon_vars, daemon_vars, store_vars, ct_vars,
                   sd_vars, scan_vars, ai_vars, cache_vars, side_vars,
                   corr_vars, copy_vars>>

SpecBackoff == InitBackoff /\ [][NextBackoff]_vars

InitAi ==
    /\ RlInit /\ AiIdle
    /\ CpIdle
    /\ MonIdle
    /\ DaemonIdle
    /\ StoreIdle
    /\ CtIdle
    /\ SdIdle
    /\ ScanIdle
    /\ CacheIdle
    /\ SideIdle
    /\ CorrIdle
    /\ CopyIdle

NextAi ==
    /\ \/ \E c \in AiCallers :
            \/ AiStart(c)
            \/ AiAcquire(c)
            \/ AiAcquireResume(c)
            \/ AiAcquired(c)
            \/ AiCallOk(c)
            \/ \E retry_after \in RetryAfters : AiCallRateLimited(c, retry_after)
            \/ AiCallCreditExhausted(c)
            \/ AiBackoffDone(c)
       \/ \E outcome \in AiOutcomes : AiAnalyzeWithContext(outcome)
       \/ GuardStatus
       \/ GuardReset
       \/ AiTick
    /\ UNCHANGED <<cp_vars, mon_vars, daemon_vars, store_vars, ct_vars,
                   sd_vars, scan_vars, cache_vars, side_vars, corr_vars,
                   copy_vars>>

SpecAi == InitAi /\ [][NextAi]_vars

InitCache ==
    /\ CacheInit
    /\ CpIdle
    /\ MonIdle
    /\ DaemonIdle
    /\ StoreIdle
    /\ CtIdle
    /\ SdIdle
    /\ ScanIdle
    /\ RlIdle
    /\ AiIdle
    /\ SideIdle
    /\ CorrIdle
    /\ CopyIdle

NextCache ==
    /\ \/ \E p \in CacheProcs :
            \/ CacheStart(p)
            \/ CacheExit(p)
            \/ \E t \in CacheTypes, i \in Identifiers :
                  \/ \E data \in CacheData, ttl \in CacheTtls : CacheSet(p, t, i, data, ttl)
                  \/ CacheGet(p, t, i)
       \/ CacheTick
    /\ UNCHANGED <<cp_vars, mon_vars, daemon_vars, store_vars, ct_vars,
                   sd_vars, scan_vars, rl_vars, ai_vars, side_vars,
                   corr_vars, copy_vars>>

SpecCache == InitCache /\ [][NextCache]_vars

InitSide ==
    /\ SideInit
    /\ CpIdle
    /\ MonIdle
    /\ DaemonIdle
    /\ StoreIdle
    /\ CtIdle
    /\ SdIdle
    /\ ScanIdle
    /\ RlIdle
    /\ AiIdle
    /\ CacheIdle
    /\ CorrIdle
    /\ CopyIdle

NextSide ==
    /\ SidePick
    /\ UNCHANGED <<cp_vars, mon_vars, daemon_vars, store_vars, ct_vars,
                   sd_vars, scan_vars, rl_vars, ai_vars, cache_vars,
                   corr_vars, copy_vars>>

SpecSide == InitSide /\ [][NextSide]_vars

InitCorr ==
    /\ CorrInit
    /\ CpIdle
    /\ MonIdle
    /\ DaemonIdle
    /\ StoreIdle
    /\ CtIdle
    /\ SdIdle
    /\ ScanIdle
    /\ RlIdle
    /\ AiIdle
    /\ CacheIdle
    /\ SideIdle
    /\ CopyIdle

NextCorr ==
    /\ CorrAdjust
    /\ UNCHANGED <<cp_vars, mon_vars, daemon_vars, store_vars, ct_vars,
                   sd_vars, scan_vars, rl_vars, ai_vars, cache_vars,
                   side_vars, copy_vars>>

SpecCorr == InitCorr /\ [][NextCorr]_vars

InitFollow ==
    /\ CtInit
    /\ CpIdle
    /\ MonIdle
    /\ DaemonIdle
    /\ StoreIdle
    /\ SdIdle
    /\ ScanIdle
    /\ RlIdle
    /\ AiIdle
    /\ CacheIdle
    /\ SideIdle
    /\ CorrIdle
    /\ CopyIdle

NextFollow ==
    /\ \/ \E id \in CtIds :
            \/ \E w \in Wallets :
                  \/ CtAdd(id, w, DefaultMaxAmount)
                  \/ CtAddCheck(id, w, DefaultMaxAmount)
            \/ CtDelete(id)
       \/ CtAddInsert
       \/ CtReload
       \/ CtRestart
       \/ CtLoad
       \/ CtProcess
       \/ CtFetched
       \/ CtSleep
    /\ UNCHANGED <<cp_vars, mon_vars, daemon_vars, store_vars, sd_vars,
                   scan_vars, rl_vars, ai_vars, cache_vars, side_vars,
                   corr_vars, copy_vars>>

SpecFollow == InitFollow /\ [][NextFollow]_vars

InitCopy ==
    /\ CopyInit
    /\ CpIdle
    /\ MonIdle
    /\ DaemonIdle
    /\ StoreIdle
    /\ CtIdle
    /\ SdIdle
    /\ ScanIdle
    /\ RlIdle
    /\ AiIdle
    /\ CacheIdle
    /\ SideIdle
    /\ CorrIdle

NextCopy ==
    /\ \/ \E t \in TradeIds : CpyUpstreamTrade(t)
       \/ CpyTick
       \/ \E ok \in BOOLEAN : CpyFetch(ok)
       \/ \E placed \in SUBSET TradeIds : CpyCopy(placed)
       \/ CpyStamp
       \/ CpyKill
       \/ CpyStart
    /\ UNCHANGED <<cp_vars, mon_vars, daemon_vars, store_vars, ct_vars,
                   sd_vars, scan_vars, rl_vars, ai_vars, cache_vars,
                   side_vars, corr_vars>>

SpecCopy == InitCopy /\ [][NextCopy]_vars

=============================================================================
